---- MODULE Spec2Model ----
(***************************************************************************)
(* FieldKit asset index: the in-memory repository (MemStorage), the        *)
(* chokidar-based FileWatcher with its initial walk and its add / change / *)
(* unlink handlers, the upsert policy processAsset, the HTTP routes that   *)
(* drive them, and the model cache of the client (ModelPreloader).         *)
(*                                                                         *)
(* Granularity.  An action is the code that runs between two awaits of a   *)
(* real I/O operation (fs.readdir, fs.stat, the file accesses inside       *)
(* generateThumbnail, watcher.close()).  The awaits of MemStorage methods  *)
(* resolve in the microtask queue of the same turn of the event loop, so   *)
(* no other I/O completion can run between them and they are part of the   *)
(* same action.                                                            *)
(***************************************************************************)
EXTENDS Integers, Sequences, FiniteSets, TLC

VARIABLES
  assets,           \* MemStorage.assets          : id -> Asset
  folders,          \* MemStorage.folders         : id -> Folder
  currentAssetId,   \* MemStorage.currentAssetId
  currentFolderId,  \* MemStorage.currentFolderId
  watchers,         \* FileWatcher.watchers       : folderPath -> subscription
  subs,             \* the chokidar FSWatcher objects ever created
  fsFiles,          \* the filesystem: file path -> [mtime, size, birth], mtime 0 = absent
  watchCalls,       \* addWatchFolder calls suspended in their initial walk
  callbacks,        \* add/change handlers suspended inside processAsset
  scanCalls,        \* POST /api/folders/scan requests suspended in their walk
  removeCalls,      \* removeWatchFolder calls suspended in watcher.close()
  edited,           \* asset id -> the client's last edit of it, and the lastModified it saw
  ops,              \* number of requests and filesystem changes so far
  last,             \* the most recent request or delivered event
  globalModelCache, \* the client's model cache, in the Map's insertion order
  loadingPromises,  \* the client's loadingPromises : cache key -> the call that loads it
  loads,            \* loadModel calls in flight
  waiting,          \* preloadModel calls awaiting the promise of another call
  clock,            \* Date.now() of the client
  calls,            \* number of preloadModel calls so far
  keysUsed          \* number of cache keys requested so far

clientVars == <<globalModelCache, loadingPromises, loads, waiting, clock, calls, keysUsed>>

vars == <<assets, folders, currentAssetId, currentFolderId, watchers, subs,
          fsFiles, watchCalls, callbacks, scanCalls, removeCalls, edited, ops, last,
          clientVars>>

storageVars == <<assets, folders, currentAssetId, currentFolderId>>

----------------------------------------------------------------------------
(* Bounds of the model.                                                    *)

MaxOps == 3

Sizes == {10, 20}

\* The size a file has in the behaviours that do not vary it.
SizeAt(m) == 10 * m

----------------------------------------------------------------------------
(* Strings.  A path is kept in the state as a string; the string functions *)
(* of the code (path.join, path.basename, path.extname, toLowerCase,       *)
(* startsWith) are computed on its characters.                             *)

CharTable ==
  "" :> << >> @@
  "/n" :> <<"/", "n">> @@
  "/p" :> <<"/", "p">> @@
  "p" :> <<"p">> @@
  "Characters" :> <<"C", "h", "a", "r", "a", "c", "t", "e", "r", "s">> @@
  "/p/Characters" :> <<"/", "p", "/", "C", "h", "a", "r", "a", "c", "t", "e", "r", "s">> @@
  "hero_lowpoly_v2.fbx" :> <<"h", "e", "r", "o", "_", "l", "o", "w", "p", "o", "l", "y", "_", "v", "2", ".", "f", "b", "x">> @@
  "rig.ma" :> <<"r", "i", "g", ".", "m", "a">> @@
  "/p/Characters/hero_lowpoly_v2.fbx" :> <<"/", "p", "/", "C", "h", "a", "r", "a", "c", "t", "e", "r", "s", "/", "h", "e", "r", "o", "_", "l", "o", "w", "p", "o", "l", "y", "_", "v", "2", ".", "f", "b", "x">> @@
  "/p/Characters/rig.ma" :> <<"/", "p", "/", "C", "h", "a", "r", "a", "c", "t", "e", "r", "s", "/", "r", "i", "g", ".", "m", "a">> @@
  "/e" :> <<"/", "e">> @@
  "e" :> <<"e">> @@
  "a.usd" :> <<"a", ".", "u", "s", "d">> @@
  "/e/a.max" :> <<"/", "e", "/", "a", ".", "m", "a", "x">> @@
  "/e/a.usd" :> <<"/", "e", "/", "a", ".", "u", "s", "d">> @@
  "n" :> <<"n">> @@
  "/m" :> <<"/", "m">> @@
  "m" :> <<"m">> @@
  "x" :> <<"x">> @@
  "k" :> <<"k">> @@
  "kk" :> <<"k", "k">> @@
  "b.obj" :> <<"b", ".", "o", "b", "j">> @@
  "n.txt" :> <<"n", ".", "t", "x", "t">> @@
  ".txt" :> <<".", "t", "x", "t">> @@
  "/m/x" :> <<"/", "m", "/", "x">> @@
  "/m/b.obj" :> <<"/", "m", "/", "b", ".", "o", "b", "j">> @@
  "/m/n.txt" :> <<"/", "m", "/", "n", ".", "t", "x", "t">> @@
  "/m/tmp" :> <<"/", "m", "/", "t", "m", "p">> @@
  "/m/k" :> <<"/", "m", "/", "k">> @@
  "/m/kk" :> <<"/", "m", "/", "k", "k">> @@
  "/m/tmp/a.obj" :> <<"/", "m", "/", "t", "m", "p", "/", "a", ".", "o", "b", "j">> @@
  "/m/k/a.obj" :> <<"/", "m", "/", "k", "/", "a", ".", "o", "b", "j">> @@
  "/t" :> <<"/", "t">> @@
  "t" :> <<"t">> @@
  "d" :> <<"d">> @@
  "/c" :> <<"/", "c">> @@
  "c" :> <<"c">> @@
  "l" :> <<"l">> @@
  "/r" :> <<"/", "r">> @@
  "/r/s" :> <<"/", "r", "/", "s">> @@
  "/r/s/a.obj" :> <<"/", "r", "/", "s", "/", "a", ".", "o", "b", "j">> @@
  "/r/s/a.max" :> <<"/", "r", "/", "s", "/", "a", ".", "m", "a", "x">> @@
  "/r/s/g" :> <<"/", "r", "/", "s", "/", "g">> @@
  "a.max" :> <<"a", ".", "m", "a", "x">> @@
  "g" :> <<"g">> @@
  "r" :> <<"r">> @@
  "s" :> <<"s">> @@
  "a.obj" :> <<"a", ".", "o", "b", "j">> @@
  ".obj" :> <<".", "o", "b", "j">> @@
  ".fbx" :> <<".", "f", "b", "x">> @@
  ".gltf" :> <<".", "g", "l", "t", "f">> @@
  ".glb" :> <<".", "g", "l", "b">> @@
  ".usd" :> <<".", "u", "s", "d">> @@
  ".usda" :> <<".", "u", "s", "d", "a">> @@
  ".usdc" :> <<".", "u", "s", "d", "c">> @@
  ".blend" :> <<".", "b", "l", "e", "n", "d">> @@
  ".ma" :> <<".", "m", "a">> @@
  ".mb" :> <<".", "m", "b">> @@
  ".hip" :> <<".", "h", "i", "p">> @@
  ".hiplc" :> <<".", "h", "i", "p", "l", "c">> @@
  ".uasset" :> <<".", "u", "a", "s", "s", "e", "t">> @@
  ".max" :> <<".", "m", "a", "x">> @@
  ".c4d" :> <<".", "c", "4", "d">> @@
  "node_modules" :> <<"n", "o", "d", "e", "_", "m", "o", "d", "u", "l", "e", "s">> @@
  ".git" :> <<".", "g", "i", "t">> @@
  ".svn" :> <<".", "s", "v", "n">> @@
  "temp" :> <<"t", "e", "m", "p">> @@
  "tmp" :> <<"t", "m", "p">> @@
  "cache" :> <<"c", "a", "c", "h", "e">> @@
  "build" :> <<"b", "u", "i", "l", "d">> @@
  "dist" :> <<"d", "i", "s", "t">> @@
  "output" :> <<"o", "u", "t", "p", "u", "t">> @@
  ".vscode" :> <<".", "v", "s", "c", "o", "d", "e">> @@
  ".idea" :> <<".", "i", "d", "e", "a">> @@
  "thumbs" :> <<"t", "h", "u", "m", "b", "s">> @@
  "character" :> <<"c", "h", "a", "r", "a", "c", "t", "e", "r">> @@
  "environment" :> <<"e", "n", "v", "i", "r", "o", "n", "m", "e", "n", "t">> @@
  "vehicle" :> <<"v", "e", "h", "i", "c", "l", "e">> @@
  "building" :> <<"b", "u", "i", "l", "d", "i", "n", "g">> @@
  "prop" :> <<"p", "r", "o", "p">> @@
  "weapon" :> <<"w", "e", "a", "p", "o", "n">> @@
  "texture" :> <<"t", "e", "x", "t", "u", "r", "e">> @@
  "anim" :> <<"a", "n", "i", "m">> @@
  "rig" :> <<"r", "i", "g">> @@
  "low" :> <<"l", "o", "w">> @@
  "high" :> <<"h", "i", "g", "h">> @@
  "_v" :> <<"_", "v">> @@
  "version" :> <<"v", "e", "r", "s", "i", "o", "n">>

Sep == "/"

\* The depth below which scanRecursive does not list.
MaxDepth == 10

\* The longest chain of directories in the trees below.
Levels == MaxDepth + 1

\* A chain of directories named name below top, k levels deep.
RECURSIVE ChainPath(_, _, _)
ChainPath(top, name, k) == IF k = 0 THEN top ELSE ChainPath(top, name, k - 1) \o Sep \o name

RECURSIVE ChainChars(_, _, _)
ChainChars(top, name, k) ==
  IF k = 0 THEN CharTable[top]
  ELSE ChainChars(top, name, k - 1) \o <<Sep>> \o CharTable[name]

ChainTable(top, name, leaf) ==
  LET dirs == [p \in {ChainPath(top, name, k) : k \in 0..Levels} |->
                 ChainChars(top, name, CHOOSE k \in 0..Levels : ChainPath(top, name, k) = p)]
      files == [p \in {ChainPath(top, name, k) \o Sep \o leaf : k \in 0..Levels} |->
                  ChainChars(top, name,
                             CHOOSE k \in 0..Levels : ChainPath(top, name, k) \o Sep \o leaf = p)
                  \o <<Sep>> \o CharTable[leaf]]
  IN  dirs @@ files

\* Every string of the model, as its characters.
Chars == CharTable @@ ChainTable("/t", "d", "a.obj") @@ ChainTable("/c", "l", "a.obj")

Intern(cs) == CHOOSE s \in DOMAIN Chars : Chars[s] = cs

UpperToLower ==
  "A" :> "a" @@ "B" :> "b" @@ "C" :> "c" @@ "D" :> "d" @@ "E" :> "e" @@
  "F" :> "f" @@ "G" :> "g" @@ "H" :> "h" @@ "I" :> "i" @@ "J" :> "j" @@
  "K" :> "k" @@ "L" :> "l" @@ "M" :> "m" @@ "N" :> "n" @@ "O" :> "o" @@
  "P" :> "p" @@ "Q" :> "q" @@ "R" :> "r" @@ "S" :> "s" @@ "T" :> "t" @@
  "U" :> "u" @@ "V" :> "v" @@ "W" :> "w" @@ "X" :> "x" @@ "Y" :> "y" @@
  "Z" :> "z"

ToLowerCase(cs) ==
  [i \in 1..Len(cs) |-> IF cs[i] \in DOMAIN UpperToLower THEN UpperToLower[cs[i]] ELSE cs[i]]

LastIndexOf(cs, c) ==
  LET hits == {i \in 1..Len(cs) : cs[i] = c}
  IN  IF hits = {} THEN 0 ELSE CHOOSE i \in hits : \A j \in hits : j <= i

StartsWith(cs, pre) ==
  /\ Len(pre) <= Len(cs)
  /\ SubSeq(cs, 1, Len(pre)) = pre

BasenameChars(cs) == SubSeq(cs, LastIndexOf(cs, Sep) + 1, Len(cs))

ExtnameChars(cs) ==
  LET b == BasenameChars(cs)
      i == LastIndexOf(b, ".")
  IN  IF i <= 1 THEN << >> ELSE SubSeq(b, i, Len(b))

EndsWith(cs, suf) ==
  /\ Len(suf) <= Len(cs)
  /\ SubSeq(cs, Len(cs) - Len(suf) + 1, Len(cs)) = suf

Includes(cs, sub) ==
  \E i \in 0..(Len(cs) - Len(sub)) : SubSeq(cs, i + 1, i + Len(sub)) = sub

\* String.split(sep).
RECURSIVE Split(_, _)
Split(cs, sep) ==
  LET hits == {i \in 1..Len(cs) : cs[i] = sep}
  IN  IF hits = {} THEN <<cs>>
      ELSE LET i == CHOOSE k \in hits : \A j \in hits : k <= j
           IN  <<SubSeq(cs, 1, i - 1)>> \o Split(SubSeq(cs, i + 1, Len(cs)), sep)

\* path.basename(p, ext): the base name, without ext when it ends with it.
BasenameWithout(cs, ext) ==
  LET b == BasenameChars(cs)
  IN  IF ext # << >> /\ Len(ext) < Len(b) /\ EndsWith(b, ext)
      THEN SubSeq(b, 1, Len(b) - Len(ext))
      ELSE b

DirnameChars(cs) == SubSeq(cs, 1, LastIndexOf(cs, Sep) - 1)

PathJoin(dir, name) == dir \o Sep \o name

PathBasename(p) == Intern(BasenameChars(Chars[p]))

PathExtLower(p) == ToLowerCase(ExtnameChars(Chars[p]))

----------------------------------------------------------------------------
(* Shared schema.                                                          *)

SUPPORTED_3D_FORMATS ==
  <<".obj", ".fbx", ".gltf", ".glb", ".usd", ".usda", ".usdc",
    ".blend", ".ma", ".mb", ".hip", ".hiplc", ".uasset">>

NoId == 0

----------------------------------------------------------------------------
(* The filesystem the program observes.  The directory trees are fixed.    *)
(* Under /r one file comes and goes and changes.  /t is a chain of         *)
(* directories deeper than MaxDepth, /c holds a symbolic link l to /c      *)
(* itself, /m holds a directory that cannot be listed (x), a dangling      *)
(* link (b.obj), a file that is no asset, an ignored directory and two     *)
(* subdirectories whose names share a prefix.  Where events are followed,  *)
(* /r/s also holds a file the watcher does not index (a.max) and a         *)
(* directory g that is created and removed.  /e holds one file of each     *)
(* extension list that the other list lacks.  /p/Characters holds two files  *)
(* whose paths and names carry keywords of the tag inference.              *)

Files == {"/r/s/a.obj"}
WatchRoots == {"/r", "/r/s"}

\* The files and the directory of /r/s that change where events are followed.
EventFiles == {"/r/s/a.obj", "/r/s/a.max"}
EventDirs == {"/r/s/g"}

DeepDirs == {ChainPath("/t", "d", k) : k \in 0..Levels}
LoopDirs == {ChainPath("/c", "l", k) : k \in 0..Levels}

\* Paths that are symbolic links to a directory.
Symlinks == LoopDirs \ {"/c"}

\* Directories whose listing fails.
Unlistable == {"/m/x"}

Dirs == {"/r", "/r/s", "/m", "/m/x", "/m/tmp", "/m/k", "/m/kk", "/e", "/p", "/p/Characters"} \cup DeepDirs \cup LoopDirs

\* The files that are always there, with the same stat result.
FixedFiles ==
  {"/m/n.txt", "/m/tmp/a.obj", "/m/k/a.obj", "/e/a.max", "/e/a.usd",
   "/p/Characters/hero_lowpoly_v2.fbx", "/p/Characters/rig.ma"}
    \cup {PathJoin(ChainPath("/t", "d", k), "a.obj") : k \in {MaxDepth, MaxDepth + 1}}
    \cup {PathJoin(d, "a.obj") : d \in LoopDirs}

DirNames(d) ==
  IF d = "/r" THEN <<"s">>
  ELSE IF d = "/r/s" THEN <<"g", "a.obj", "a.max">>
  ELSE IF d = "/m" THEN <<"x", "b.obj", "n.txt", "tmp", "k", "kk">>
  ELSE IF d \in {"/m/tmp", "/m/k"} THEN <<"a.obj">>
  ELSE IF d = "/e" THEN <<"a.max", "a.usd">>
  ELSE IF d = "/p" THEN <<"Characters">>
  ELSE IF d = "/p/Characters" THEN <<"hero_lowpoly_v2.fbx", "rig.ma">>
  ELSE IF d \in LoopDirs THEN <<"a.obj", "l">>
  ELSE IF d \in DeepDirs THEN <<"a.obj", "d">>
  ELSE << >>

Absent == [mtime |-> 0, size |-> 0, birth |-> 0]

\* fs.stat(p) of a file: mtime 0 stands for the rejection.
StatOf(p) ==
  IF p \in DOMAIN fsFiles THEN fsFiles[p]
  ELSE IF p \in FixedFiles THEN [mtime |-> 1, size |-> SizeAt(1), birth |-> 1]
  ELSE Absent

\* fs.stat(p) resolves: p is a directory, a link to one, or a file that is there.
Exists(p) == p \in Dirs \/ StatOf(p).mtime > 0

\* The entry is in the listing of its directory (a dangling link is).
Listed(dir, n) ==
  LET full == PathJoin(dir, n)
  IN  \/ full \in Dirs
      \/ dir \in LoopDirs /\ n = "l"
      \/ IF full \in DOMAIN fsFiles THEN fsFiles[full].mtime > 0
         ELSE full \in FixedFiles \/ full = "/m/b.obj"

\* The path lies outside the trees above: a walk that gets there is lost.
Beyond(p) == p \notin DOMAIN Chars

\* fs.readdir(dir): the names of the entries that exist now.
ReadDir(dir) == SelectSeq(DirNames(dir), LAMBDA n : Listed(dir, n))

\* A directory that comes and goes is there now.
DirPresent(p) == p \in EventDirs /\ p \in DOMAIN fsFiles /\ fsFiles[p].mtime > 0

\* fs.readdir(dir) resolves.
Listable(dir) == dir \in Dirs \ Unlistable \/ DirPresent(dir)

\* stats.isDirectory(), fs.stat following links.
IsDirectory(p) == p \in Dirs \/ DirPresent(p)

\* entry.isDirectory() of a Dirent: false for a symbolic link.
DirentIsDirectory(p) == p \in Dirs \ Symlinks \/ DirPresent(p)

\* The files a subscription on root reports: those below root.
Covers(root, p) == StartsWith(Chars[p], Chars[root] \o <<Sep>>)

----------------------------------------------------------------------------
(* MemStorage.                                                             *)

DemoTime == 0

NullPath == << >>

\* initializeDemoData: three assets, ids 1..3.
DemoAssets ==
  1 :> [id |-> 1, createdAt |-> 0,
        filename |-> "character_model.fbx",
        filepath |-> "P:/Projects/character_model.fbx",
        filesize |-> 15680000, filetype |-> ".fbx", thumbnailPath |-> NullPath,
        tags |-> <<"character", "rigged", "animation">>,
        metadata |-> [software |-> "Maya", polyCount |-> 12500,
                      hasAnimations |-> TRUE, project |-> "Game Character"],
        lastModified |-> DemoTime] @@
  2 :> [id |-> 2, createdAt |-> 0,
        filename |-> "environment_building.blend",
        filepath |-> "P:/Projects/environment_building.blend",
        filesize |-> 8950000, filetype |-> ".blend", thumbnailPath |-> NullPath,
        tags |-> <<"environment", "architecture", "lowpoly">>,
        metadata |-> [software |-> "Blender", polyCount |-> 5600,
                      materials |-> 8, project |-> "Environment Pack"],
        lastModified |-> DemoTime] @@
  3 :> [id |-> 3, createdAt |-> 0,
        filename |-> "vehicle_car.obj",
        filepath |-> "P:/Projects/vehicle_car.obj",
        filesize |-> 4250000, filetype |-> ".obj", thumbnailPath |-> NullPath,
        tags |-> <<"vehicle", "transport", "textured">>,
        metadata |-> [polyCount |-> 8900, hasTextures |-> TRUE,
                      project |-> "Vehicle Collection"],
        lastModified |-> DemoTime]

MinOf(S) == CHOOSE i \in S : \A j \in S : i <= j

\* A field of an insert object, or the default the code falls back to.
FieldOr(ins, f, default) == IF f \in DOMAIN ins THEN ins[f] ELSE default

\* getAssetByPath: Array.find over the Map's values, in insertion order.
GetAssetByPath(A, filepath) ==
  LET hits == {i \in DOMAIN A : A[i].filepath = filepath}
  IN  IF hits = {} THEN NoId ELSE MinOf(hits)

\* createAsset; createdAt, new Date(), is told by the number of requests and
\* filesystem changes so far.
CreateAsset(A, id, ins) ==
  A @@ (id :> [id |-> id,
               createdAt |-> ops,
               filename |-> ins.filename,
               filepath |-> ins.filepath,
               filesize |-> ins.filesize,
               filetype |-> ins.filetype,
               thumbnailPath |-> FieldOr(ins, "thumbnailPath", NullPath),
               tags |-> FieldOr(ins, "tags", << >>),
               metadata |-> ins.metadata,
               lastModified |-> ins.lastModified])

\* updateAsset: { ...asset, ...updates } over the record stored now.
UpdateAsset(A, id, updates) ==
  IF id \notin DOMAIN A THEN A
  ELSE [A EXCEPT ![id] =
          [f \in DOMAIN A[id] |-> IF f \in DOMAIN updates THEN updates[f] ELSE A[id][f]]]

DeleteAsset(A, id) == [i \in DOMAIN A \ {id} |-> A[i]]

GetFolderByPath(F, path) ==
  LET hits == {i \in DOMAIN F : F[i].path = path}
  IN  IF hits = {} THEN NoId ELSE MinOf(hits)

\* String.prototype.slice(n).
Slice(cs, n) == SubSeq(cs, n + 1, Len(cs))

\* getSubfolders(parentPath), as the ids of the folders returned.
GetSubfolders(F, parentPath) ==
  {i \in DOMAIN F :
     LET relativePath == Slice(Chars[F[i].path], Len(Chars[parentPath]) + 1)
     IN  /\ StartsWith(Chars[F[i].path], Chars[parentPath])
         /\ F[i].path # parentPath
         /\ ~Includes(relativePath, <<Sep>>)
         /\ F[i].isWatched}

CreateFolder(F, id, ins) ==
  F @@ (id :> [path |-> ins.path,
               name |-> ins.name,
               parentId |-> ins.parentId,
               isWatched |-> FieldOr(ins, "isWatched", TRUE)])

UpdateFolder(F, id, updates) ==
  IF id \notin DOMAIN F THEN F
  ELSE [F EXCEPT ![id] =
          [f \in DOMAIN F[id] |-> IF f \in DOMAIN updates THEN updates[f] ELSE F[id][f]]]

----------------------------------------------------------------------------
(* generateThumbnail: the placeholder's path, or null when the directory   *)
(* or the file cannot be written.                                          *)

ThumbnailFor(p) ==
  <<"thumbnails", BasenameWithout(Chars[p], PathExtLower(p)), "_thumb.png">>

ThumbnailResults(p) == {NullPath, ThumbnailFor(p)}

----------------------------------------------------------------------------
(* FileWatcher.processAsset, shared by the initial walk and the handlers.  *)

Is3DFileAny(p) == TRUE

Is3DFile(p) ==
  \E i \in 1..Len(SUPPORTED_3D_FORMATS) : Chars[SUPPORTED_3D_FORMATS[i]] = PathExtLower(p)

Idle == [pc |-> "done", mtime |-> 0, size |-> 0, assetId |-> NoId]

WatcherUpdatesWithTags(pr, thumb) ==
  [filesize |-> pr.size, lastModified |-> pr.mtime, thumbnailPath |-> thumb,
   tags |-> << >>, metadata |-> [estimated |-> TRUE]]

\* The update branch's argument to storage.updateAsset.
WatcherUpdates(pr, thumb) ==
  [filesize |-> pr.size, lastModified |-> pr.mtime, thumbnailPath |-> thumb]

\* The create branch's argument to storage.createAsset.
WatcherInsert(p, pr, thumb) ==
  [filename |-> PathBasename(p),
   filepath |-> p,
   filesize |-> pr.size,
   filetype |-> Intern(PathExtLower(p)),
   thumbnailPath |-> thumb,
   tags |-> << >>,
   metadata |-> [directory |-> Intern(DirnameChars(Chars[p])),
                 extension |-> Intern(PathExtLower(p))],
   lastModified |-> pr.mtime]

IsNewerOrSame(mtime, stored) == mtime >= stored

\* The mtime guard.
IsNewer(mtime, stored) == mtime > stored

AfterStatUncaught(A, p) ==
  LET st == StatOf(p)
      a == GetAssetByPath(A, p)
  IN  IF a # NoId /\ ~IsNewer(st.mtime, A[a].lastModified) THEN Idle
      ELSE [pc |-> "thumb", mtime |-> st.mtime, size |-> st.size, assetId |-> a]

\* From the completion of fs.stat to the next await: the lookup and the guard.
AfterStat(A, p) ==
  LET st == StatOf(p)
      a == GetAssetByPath(A, p)
  IN  IF st.mtime = 0 THEN Idle
      ELSE IF a # NoId
           THEN IF IsNewer(st.mtime, A[a].lastModified)
                THEN [pc |-> "thumb", mtime |-> st.mtime, size |-> st.size, assetId |-> a]
                ELSE Idle
           ELSE [pc |-> "thumb", mtime |-> st.mtime, size |-> st.size, assetId |-> NoId]

AfterThumbSkipNull(A, nid, p, pr, thumb) ==
  IF thumb = NullPath THEN [assets |-> A, nid |-> nid]
  ELSE IF pr.assetId # NoId
  THEN [assets |-> UpdateAsset(A, pr.assetId, WatcherUpdates(pr, thumb)), nid |-> nid]
  ELSE [assets |-> CreateAsset(A, nid, WatcherInsert(p, pr, thumb)), nid |-> nid + 1]

\* From the completion of generateThumbnail to the end of processAsset.
AfterThumb(A, nid, p, pr, thumb) ==
  IF pr.assetId # NoId
  THEN [assets |-> UpdateAsset(A, pr.assetId, WatcherUpdates(pr, thumb)), nid |-> nid]
  ELSE [assets |-> CreateAsset(A, nid, WatcherInsert(p, pr, thumb)), nid |-> nid + 1]

----------------------------------------------------------------------------
(* FileWatcher.scanFolder (private): the initial walk of addWatchFolder.   *)
(* A walk is a stack of directory frames; the frame on top is the          *)
(* directory being listed or the one whose entries are being processed.    *)

WalkFolderInsertFirst(F, dir, full, name) ==
  [path |-> full, name |-> name, parentId |-> MinOf(DOMAIN F), isWatched |-> FALSE]

\* The subfolder entry the walk creates for a directory it meets.
WalkFolderInsert(F, dir, full, name) ==
  [path |-> full, name |-> name, parentId |-> GetFolderByPath(F, dir), isWatched |-> FALSE]

\* The loop over the entries, from the resumption of the walk to its next
\* await (readdir of a subdirectory, stat of a 3D file) or to its end.
RECURSIVE Advance(_, _, _)
Advance(stack, F, nf) ==
  IF stack = << >>
  THEN [pc |-> "done", path |-> "", stack |-> stack, folders |-> F, nf |-> nf]
  ELSE LET n == Len(stack)
           top == stack[n]
       IN  IF top.entries = << >>
           THEN Advance(SubSeq(stack, 1, n - 1), F, nf)
           ELSE LET name == Head(top.entries)
                    full == PathJoin(top.dir, name)
                    rest == [stack EXCEPT ![n].entries = Tail(@)]
                IN  IF DirentIsDirectory(full)
                    THEN LET absent == GetFolderByPath(F, full) = NoId
                         IN  [pc |-> "readdir", path |-> "",
                              stack |-> Append(rest, [dir |-> full, entries |-> << >>]),
                              folders |-> IF absent
                                          THEN CreateFolder(F, nf, WalkFolderInsert(F, top.dir, full, name))
                                          ELSE F,
                              nf |-> IF absent THEN nf + 1 ELSE nf]
                    ELSE IF Is3DFile(full)
                         THEN [pc |-> "stat", path |-> full, stack |-> rest,
                               folders |-> F, nf |-> nf]
                         ELSE Advance(rest, F, nf)

\* chokidar.watch(folderPath) and this.watchers.set(folderPath, watcher).
Subscribe(w) ==
  /\ subs' = Append(subs, [root |-> w.root, open |-> TRUE, by |-> w.cid, queue |-> << >>])
  /\ watchers' = (w.root :> Len(subs) + 1) @@ watchers

\* The walk goes on to its next await, or addWatchFolder completes.
WalkResume(w, adv) ==
  /\ folders' = adv.folders
  /\ currentFolderId' = adv.nf
  /\ IF adv.pc = "done"
     THEN /\ watchCalls' = watchCalls \ {w}
          /\ Subscribe(w)
     ELSE /\ watchCalls' = (watchCalls \ {w}) \cup
                 {[w EXCEPT !.stack = adv.stack, !.pc = adv.pc, !.path = adv.path,
                            !.mtime = 0, !.size = 0, !.assetId = NoId]}
          /\ UNCHANGED <<subs, watchers>>

RootFolderInsert(root) ==
  [path |-> root, name |-> PathBasename(root), parentId |-> NoId, isWatched |-> TRUE]

NewWalk(root) ==
  [cid |-> ops + 1, root |-> root, stack |-> <<[dir |-> root, entries |-> << >>]>>,
   pc |-> "readdir", path |-> "", mtime |-> 0, size |-> 0, assetId |-> NoId]

CreateRootFolder(root) ==
  /\ folders' = CreateFolder(folders, currentFolderId, RootFolderInsert(root))
  /\ currentFolderId' = currentFolderId + 1

EnsureRootFolder(root) ==
  IF GetFolderByPath(folders, root) = NoId
  THEN /\ folders' = CreateFolder(folders, currentFolderId, RootFolderInsert(root))
       /\ currentFolderId' = currentFolderId + 1
  ELSE UNCHANGED <<folders, currentFolderId>>

AddWatchFolderUnchecked(root) ==
  /\ ops' = ops + 1
  /\ last' = [op |-> "addWatchFolder", path |-> root, flag |-> root \in DOMAIN watchers]
  /\ UNCHANGED <<assets, currentAssetId, watchers, subs, fsFiles, callbacks, scanCalls,
                 removeCalls, edited, clientVars>>
  /\ EnsureRootFolder(root)
  /\ watchCalls' = watchCalls \cup {NewWalk(root)}

AddWatchFolderEager(root) ==
  /\ ops' = ops + 1
  /\ last' = [op |-> "addWatchFolder", path |-> root, flag |-> root \in DOMAIN watchers]
  /\ UNCHANGED <<assets, currentAssetId, fsFiles, callbacks, scanCalls, removeCalls, edited, clientVars>>
  /\ IF root \in DOMAIN watchers
     THEN UNCHANGED <<folders, currentFolderId, watchCalls, subs, watchers>>
     ELSE /\ EnsureRootFolder(root)
          /\ Subscribe(NewWalk(root))
          /\ watchCalls' = watchCalls \cup {NewWalk(root)}

\* addWatchFolder(folderPath), up to the first readdir of the walk.
AddWatchFolder(root) ==
  /\ ops' = ops + 1
  /\ last' = [op |-> "addWatchFolder", path |-> root, flag |-> root \in DOMAIN watchers]
  /\ UNCHANGED <<assets, currentAssetId, watchers, subs, fsFiles, callbacks, scanCalls, removeCalls, edited, clientVars>>
  /\ IF root \in DOMAIN watchers
     THEN UNCHANGED <<folders, currentFolderId, watchCalls>>
     ELSE /\ EnsureRootFolder(root)
          /\ watchCalls' = watchCalls \cup {NewWalk(root)}

AbortWalk(stack) == << >>

\* A listing failed: the catch of that directory's call, the caller goes on.
SkipDirectory(stack) == SubSeq(stack, 1, Len(stack) - 1)

\* fs.readdir of the walk completes.
WalkReadDir(w) ==
  /\ w.pc = "readdir"
  /\ LET n == Len(w.stack)
         dir == w.stack[n].dir
         listed == IF Listable(dir)
                   THEN [w.stack EXCEPT ![n].entries = ReadDir(dir)]
                   ELSE SkipDirectory(w.stack)
     IN  WalkResume(w, Advance(listed, folders, currentFolderId))
  /\ UNCHANGED <<assets, currentAssetId, fsFiles, callbacks, scanCalls, removeCalls, edited, clientVars, ops, last>>

\* fs.stat of the walk's processAsset completes.
WalkStat(w) ==
  /\ w.pc = "stat"
  /\ LET pr == AfterStat(assets, w.path)
     IN  IF pr.pc = "thumb"
         THEN /\ watchCalls' = (watchCalls \ {w}) \cup
                     {[w EXCEPT !.pc = "thumb", !.mtime = pr.mtime, !.size = pr.size,
                                !.assetId = pr.assetId]}
              /\ UNCHANGED <<folders, currentFolderId, subs, watchers>>
         ELSE WalkResume(w, Advance(w.stack, folders, currentFolderId))
  /\ UNCHANGED <<assets, currentAssetId, fsFiles, callbacks, scanCalls, removeCalls, edited, clientVars, ops, last>>

\* generateThumbnail of the walk's processAsset completes.
WalkThumb(w, thumb) ==
  /\ w.pc = "thumb"
  /\ LET r == AfterThumb(assets, currentAssetId, w.path, w, thumb)
     IN  /\ assets' = r.assets
         /\ currentAssetId' = r.nid
  /\ WalkResume(w, Advance(w.stack, folders, currentFolderId))
  /\ UNCHANGED <<fsFiles, callbacks, scanCalls, removeCalls, edited, clientVars, ops, last>>

----------------------------------------------------------------------------
(* FileScanner (the on-demand scan) and POST /api/folders/scan.            *)

ScannerExtensions ==
  <<".obj", ".fbx", ".gltf", ".glb", ".blend", ".ma", ".mb", ".max", ".c4d">>

IgnoredDirs ==
  <<"node_modules", ".git", ".svn", "temp", "tmp", "cache",
    "build", "dist", "output", ".vscode", ".idea", "thumbs">>

ShouldIgnoreDirectory(name) ==
  \E i \in 1..Len(IgnoredDirs) : Chars[IgnoredDirs[i]] = ToLowerCase(Chars[name])

ScannerSupports(p) ==
  \E i \in 1..Len(ScannerExtensions) : Chars[ScannerExtensions[i]] = PathExtLower(p)

AddTagAgain(tags, t) == Append(tags, t)

\* Set.add, in insertion order.
AddTag(tags, t) == IF \E i \in 1..Len(tags) : tags[i] = t THEN tags ELSE Append(tags, t)

ExtensionTags ==
  <<[ext |-> ".fbx", tag |-> "fbx"], [ext |-> ".obj", tag |-> "obj"],
    [ext |-> ".blend", tag |-> "blender"], [ext |-> ".gltf", tag |-> "gltf"],
    [ext |-> ".glb", tag |-> "gltf"], [ext |-> ".ma", tag |-> "maya"],
    [ext |-> ".mb", tag |-> "maya"]>>

DirectoryTags ==
  <<[kw |-> "character", tag |-> "character"], [kw |-> "environment", tag |-> "environment"],
    [kw |-> "vehicle", tag |-> "vehicle"], [kw |-> "building", tag |-> "building"],
    [kw |-> "prop", tag |-> "prop"], [kw |-> "weapon", tag |-> "weapon"],
    [kw |-> "texture", tag |-> "textured"], [kw |-> "anim", tag |-> "animation"],
    [kw |-> "rig", tag |-> "rigged"]>>

FilenameTags ==
  <<[kw |-> "low", tag |-> "lowpoly"], [kw |-> "high", tag |-> "highpoly"],
    [kw |-> "rig", tag |-> "rigged"], [kw |-> "anim", tag |-> "animation"],
    [kw |-> "_v", tag |-> "versioned"], [kw |-> "version", tag |-> "versioned"]>>

\* The rules of one group applied in order: rules[i] adds its tag when hit[i].
RECURSIVE ApplyTags(_, _, _, _)
ApplyTags(tags, rules, hit, i) ==
  IF i > Len(rules) THEN tags
  ELSE ApplyTags(IF hit[i] THEN AddTag(tags, rules[i].tag) ELSE tags, rules, hit, i + 1)

\* generateTagsFromPath(filePath, filename): filePath as characters, filename
\* the base name without its extension.
GenerateTagsFromPath(cs, filename) ==
  LET ext == ToLowerCase(ExtnameChars(cs))
      pathParts == Split(ToLowerCase(cs), Sep)
      lowerFilename == ToLowerCase(filename)
      byExt == [i \in 1..Len(ExtensionTags) |-> Chars[ExtensionTags[i].ext] = ext]
      byDir == [i \in 1..Len(DirectoryTags) |->
                  \E k \in 1..Len(pathParts) : Includes(pathParts[k], Chars[DirectoryTags[i].kw])]
      byName == [i \in 1..Len(FilenameTags) |-> Includes(lowerFilename, Chars[FilenameTags[i].kw])]
  IN  ApplyTags(ApplyTags(ApplyTags(<< >>, ExtensionTags, byExt, 1),
                          DirectoryTags, byDir, 1),
                FilenameTags, byName, 1)

\* createAssetFromFile(filePath, stats).
CreateAssetFromFile(p, st) ==
  LET filename == BasenameChars(Chars[p])
      ext == ToLowerCase(ExtnameChars(filename))
  IN  [filename |-> Intern(filename),
       filepath |-> p,
       filesize |-> st.size,
       filetype |-> Intern(ext),
       lastModified |-> st.mtime,
       tags |-> GenerateTagsFromPath(Chars[p], BasenameWithout(filename, ext)),
       metadata |-> [createdAt |-> st.birth, modifiedAt |-> st.mtime,
                     directory |-> Intern(DirnameChars(Chars[p])), estimated |-> TRUE]]

\* The subfolder entry scanRecursive creates for a directory it meets.
ScanFolderInsert(F, dir, full, name) ==
  [path |-> full, name |-> name, parentId |-> GetFolderByPath(F, dir), isWatched |-> FALSE]

\* The loop over the items, from the resumption of scanRecursive to its next
\* await (the stat of the next item) or to the end of the whole walk.
RECURSIVE ScanAdvance(_)
ScanAdvance(stack) ==
  IF stack = << >>
  THEN [pc |-> "done", path |-> "", item |-> "", stack |-> stack]
  ELSE LET n == Len(stack)
           top == stack[n]
       IN  IF top.entries = << >>
           THEN ScanAdvance(SubSeq(stack, 1, n - 1))
           ELSE [pc |-> "stat", path |-> PathJoin(top.dir, Head(top.entries)),
                 item |-> Head(top.entries),
                 stack |-> [stack EXCEPT ![n].entries = Tail(@)]]

EnterDirectoryUnbounded(stack, dir, depth) ==
  [pc |-> "readdir", path |-> "", item |-> "",
   stack |-> Append(stack, [dir |-> dir, entries |-> << >>, depth |-> depth])]

\* scanRecursive(dir, assets, depth) entered: the depth check before readdir.
EnterDirectory(stack, dir, depth) ==
  IF depth > MaxDepth
  THEN [ScanAdvance(stack) EXCEPT !.item = ""]
  ELSE [pc |-> "readdir", path |-> "", item |-> "",
        stack |-> Append(stack, [dir |-> dir, entries |-> << >>, depth |-> depth])]

RECURSIVE InsertAll(_, _, _)
InsertAll(A, nid, found) ==
  IF found = << >> THEN A
  ELSE InsertAll(CreateAsset(A, nid, Head(found)), nid + 1, Tail(found))

RebuildKeep(A, nid, found) == InsertAll(A, nid, found)

\* The route after the walk: clear every asset, add the scanned ones.
Rebuild(A, nid, found) == InsertAll(<< >>, nid, found)

\* The route's last loop: the folder and all its subfolders become watched.
MarkWatched(F, root) ==
  [i \in DOMAIN F |->
     IF F[i].path = root \/ StartsWith(Chars[F[i].path], Chars[root] \o <<Sep>>)
     THEN [F[i] EXCEPT !.isWatched = TRUE]
     ELSE F[i]]

\* The scan goes on to its next await, or the route completes.
ScanResume(sc, adv, F, nf, found) ==
  /\ currentFolderId' = nf
  /\ IF adv.pc = "done"
     THEN /\ scanCalls' = scanCalls \ {sc}
          /\ assets' = Rebuild(assets, currentAssetId, found)
          /\ currentAssetId' = currentAssetId + Len(found)
          /\ folders' = MarkWatched(F, sc.root)
          /\ last' = [op |-> "scanFolder.returned", path |-> sc.root, flag |-> sc.rerun,
                       count |-> Len(found)]
     ELSE /\ scanCalls' = (scanCalls \ {sc}) \cup
                 {[sc EXCEPT !.stack = adv.stack, !.pc = adv.pc, !.path = adv.path,
                             !.item = adv.item, !.found = found]}
          /\ folders' = F
          /\ UNCHANGED <<assets, currentAssetId, last>>

\* POST /api/folders/scan, up to the first readdir of the walk.
ScanFolder(root) ==
  /\ ops' = ops + 1
  /\ last' = [op |-> "scanFolder", path |-> root, flag |-> GetFolderByPath(folders, root) # NoId]
  /\ EnsureRootFolder(root)
  /\ scanCalls' = scanCalls \cup
       {[cid |-> ops + 1, root |-> root,
         stack |-> <<[dir |-> root, entries |-> << >>, depth |-> 0]>>,
         pc |-> "readdir", path |-> "", item |-> "", found |-> << >>,
         rerun |-> last.op = "scanFolder.returned" /\ last.path = root]}
  /\ UNCHANGED <<assets, currentAssetId, watchers, subs, fsFiles, watchCalls, callbacks,
                 removeCalls, edited, clientVars>>

\* readdir of the scan completes.
ScanReadDir(sc) ==
  /\ sc.pc = "readdir"
  /\ LET n == Len(sc.stack)
         dir == sc.stack[n].dir
         listed == IF Listable(dir)
                   THEN [sc.stack EXCEPT ![n].entries = ReadDir(dir)]
                   ELSE SkipDirectory(sc.stack)
     IN  ScanResume(sc, ScanAdvance(listed), folders, currentFolderId, sc.found)
  /\ UNCHANGED <<watchers, subs, fsFiles, watchCalls, callbacks, removeCalls, edited, clientVars, ops>>

\* stat of the scan's current item completes.
ScanStat(sc) ==
  /\ sc.pc = "stat"
  /\ LET n == Len(sc.stack)
         cur == sc.stack[n]
         absent == GetFolderByPath(folders, sc.path) = NoId
     IN  IF Beyond(sc.path)
         THEN /\ scanCalls' = (scanCalls \ {sc}) \cup {[sc EXCEPT !.pc = "lost"]}
              /\ UNCHANGED <<assets, folders, currentAssetId, currentFolderId, last>>
         ELSE IF ~Exists(sc.path)
         THEN ScanResume(sc, ScanAdvance(sc.stack), folders, currentFolderId, sc.found)
         ELSE IF IsDirectory(sc.path)
         THEN IF ~StartsWith(Chars[sc.item], <<".">>) /\ ~ShouldIgnoreDirectory(sc.item)
              THEN ScanResume(sc, EnterDirectory(sc.stack, sc.path, cur.depth + 1),
                              IF absent
                              THEN CreateFolder(folders, currentFolderId,
                                                ScanFolderInsert(folders, cur.dir, sc.path, sc.item))
                              ELSE folders,
                              IF absent THEN currentFolderId + 1 ELSE currentFolderId,
                              sc.found)
              ELSE ScanResume(sc, ScanAdvance(sc.stack), folders, currentFolderId, sc.found)
         ELSE ScanResume(sc, ScanAdvance(sc.stack), folders, currentFolderId,
                         IF ScannerSupports(sc.path)
                         THEN Append(sc.found, CreateAssetFromFile(sc.path, StatOf(sc.path)))
                         ELSE sc.found)
  /\ UNCHANGED <<watchers, subs, fsFiles, watchCalls, callbacks, removeCalls, edited, clientVars, ops>>

----------------------------------------------------------------------------
(* The watcher's handlers.                                                 *)

Untouched(i) == UNCHANGED <<folders, currentFolderId, watchers, fsFiles, watchCalls,
                            scanCalls, removeCalls, edited, clientVars, ops>>

Dequeue(i) == subs' = [subs EXCEPT ![i].queue = Tail(@)]

\* .on('add') and .on('change'): is3DFile, then processAsset up to fs.stat.
OnAddOrChange(i) ==
  /\ subs[i].open
  /\ subs[i].queue # << >>
  /\ LET e == Head(subs[i].queue)
     IN  /\ e.kind \in {"add", "change"}
         /\ callbacks' = IF Is3DFile(e.path)
                         THEN callbacks \cup
                                {[sub |-> i, ev |-> e.ev, path |-> e.path, pc |-> "stat",
                                  mtime |-> 0, size |-> 0, assetId |-> NoId]}
                         ELSE callbacks
         /\ last' = [op |-> e.kind, path |-> e.path, flag |-> Is3DFile(e.path)]
  /\ Dequeue(i)
  /\ UNCHANGED <<assets, currentAssetId>>
  /\ Untouched(i)

UnlinkEffectFirst(A, p) ==
  IF GetAssetByPath(A, p) # NoId THEN DeleteAsset(A, MinOf(DOMAIN A)) ELSE A

\* What the unlink handler leaves of the assets.
UnlinkEffect(A, p) ==
  IF GetAssetByPath(A, p) # NoId THEN DeleteAsset(A, GetAssetByPath(A, p)) ELSE A

\* .on('unlink'): getAssetByPath, deleteAsset.
OnUnlink(i) ==
  /\ subs[i].open
  /\ subs[i].queue # << >>
  /\ LET e == Head(subs[i].queue)
     IN  /\ e.kind = "unlink"
         /\ assets' = UnlinkEffect(assets, e.path)
         /\ last' = [op |-> "unlink", path |-> e.path,
                     flag |-> GetAssetByPath(assets, e.path) # NoId]
  /\ Dequeue(i)
  /\ UNCHANGED <<currentAssetId, callbacks>>
  /\ Untouched(i)

\* 'addDir' and 'unlinkDir': the watcher has no listener for them.
OnDirEvent(i) ==
  /\ subs[i].open
  /\ subs[i].queue # << >>
  /\ LET e == Head(subs[i].queue)
     IN  /\ e.kind \in {"addDir", "unlinkDir"}
         /\ last' = [op |-> e.kind, path |-> e.path, flag |-> FALSE]
  /\ Dequeue(i)
  /\ UNCHANGED <<assets, currentAssetId, callbacks>>
  /\ Untouched(i)

\* fs.stat of a handler's processAsset completes.
CallbackStat(cb) ==
  /\ cb.pc = "stat"
  /\ LET pr == AfterStat(assets, cb.path)
     IN  callbacks' = IF pr.pc = "thumb"
                      THEN (callbacks \ {cb}) \cup
                             {[cb EXCEPT !.pc = "thumb", !.mtime = pr.mtime,
                                         !.size = pr.size, !.assetId = pr.assetId]}
                      ELSE callbacks \ {cb}
  /\ UNCHANGED <<assets, folders, currentAssetId, currentFolderId, watchers, subs,
                 fsFiles, watchCalls, scanCalls, removeCalls, edited, clientVars, ops, last>>

\* generateThumbnail of a handler's processAsset completes.
CallbackThumb(cb, thumb) ==
  /\ cb.pc = "thumb"
  /\ LET r == AfterThumb(assets, currentAssetId, cb.path, cb, thumb)
     IN  /\ assets' = r.assets
         /\ currentAssetId' = r.nid
  /\ callbacks' = callbacks \ {cb}
  /\ UNCHANGED <<folders, currentFolderId, watchers, subs, fsFiles, watchCalls,
                 scanCalls, removeCalls, edited, clientVars, ops, last>>

----------------------------------------------------------------------------
(* removeWatchFolder.                                                      *)

MarkUnwatchedTree(F, root) ==
  [i \in DOMAIN F |->
     IF F[i].path = root \/ StartsWith(Chars[F[i].path], Chars[root] \o <<Sep>>)
     THEN [F[i] EXCEPT !.isWatched = FALSE]
     ELSE F[i]]

\* storage.updateFolder(folder.id, { isWatched: false }) on the folder found by path.
MarkUnwatched(F, root) ==
  IF GetFolderByPath(F, root) # NoId
  THEN UpdateFolder(F, GetFolderByPath(F, root), [isWatched |-> FALSE])
  ELSE F

CloseAbove(S, i) ==
  [j \in DOMAIN S |->
     IF j = i \/ Covers(S[j].root, S[i].root)
     THEN [S[j] EXCEPT !.open = FALSE, !.queue = << >>]
     ELSE S[j]]

\* watcher.close(): the subscription emits nothing from here on.
Close(S, i) == [S EXCEPT ![i].open = FALSE, ![i].queue = << >>]

RemoveWatchedOnly(root) ==
  /\ ops' = ops + 1
  /\ last' = [op |-> "removeWatchFolder", path |-> root, flag |-> root \in DOMAIN watchers]
  /\ IF root \in DOMAIN watchers
     THEN /\ subs' = Close(subs, watchers[root])
          /\ removeCalls' = removeCalls \cup {[cid |-> ops + 1, root |-> root, sub |-> watchers[root]]}
     ELSE UNCHANGED <<subs, removeCalls>>
  /\ UNCHANGED <<assets, currentAssetId, folders, currentFolderId, watchers, fsFiles,
                 watchCalls, callbacks, scanCalls, edited, clientVars>>

\* removeWatchFolder(folderPath), up to the await of watcher.close(), or to its
\* end when the path has no watcher.
RemoveWatchFolder(root) ==
  /\ ops' = ops + 1
  /\ last' = [op |-> "removeWatchFolder", path |-> root, flag |-> root \in DOMAIN watchers]
  /\ IF root \in DOMAIN watchers
     THEN /\ subs' = Close(subs, watchers[root])
          /\ removeCalls' = removeCalls \cup {[cid |-> ops + 1, root |-> root, sub |-> watchers[root]]}
          /\ UNCHANGED folders
     ELSE /\ folders' = MarkUnwatched(folders, root)
          /\ UNCHANGED <<subs, removeCalls>>
  /\ UNCHANGED <<assets, currentAssetId, currentFolderId, watchers, fsFiles, watchCalls,
                 callbacks, scanCalls, edited, clientVars>>

\* watcher.close() has resolved: watchers.delete, then the folder update.
RemoveFinish(rc) ==
  /\ watchers' = [r \in DOMAIN watchers \ {rc.root} |-> watchers[r]]
  /\ folders' = MarkUnwatched(folders, rc.root)
  /\ removeCalls' = removeCalls \ {rc}
  /\ last' = [op |-> "removeWatchFolder.returned", path |-> rc.root, flag |-> TRUE]
  /\ UNCHANGED <<assets, currentAssetId, currentFolderId, subs, fsFiles, watchCalls,
                 callbacks, scanCalls, edited, clientVars, ops>>

----------------------------------------------------------------------------
(* GET /api/folders/subfolders/:path.                                      *)

GetSubfoldersRoute(parentPath) ==
  /\ ops' = ops + 1
  /\ last' = [op |-> "getSubfolders", path |-> parentPath, flag |-> TRUE,
              result |-> GetSubfolders(folders, parentPath)]
  /\ UNCHANGED <<assets, folders, currentAssetId, currentFolderId, watchers, subs, fsFiles,
                 watchCalls, callbacks, scanCalls, removeCalls, edited, clientVars>>

----------------------------------------------------------------------------
(* The folder routes: POST /api/folders/scan, POST and DELETE              *)
(* /api/folders/watch.  A request body carries a path, an empty path, or   *)
(* no path at all.                                                         *)

NoPathBody == [other |-> ""]

Bodies(paths) == {[path |-> p] : p \in paths \cup {""}} \cup {NoPathBody}

PathUndefined(body) == "path" \notin DOMAIN body

\* !folderPath
PathMissing(body) == "path" \notin DOMAIN body \/ body.path = ""

\* res.status(400).json({ message: "Folder path is required" }).
Reject(route) ==
  /\ ops' = ops + 1
  /\ last' = [op |-> "rejected", path |-> "", flag |-> FALSE, route |-> route]
  /\ UNCHANGED <<assets, folders, currentAssetId, currentFolderId, watchers, subs, fsFiles,
                 watchCalls, callbacks, scanCalls, removeCalls, edited, clientVars>>

PostScan(body) == IF PathMissing(body) THEN Reject("scan") ELSE ScanFolder(body.path)

PostWatch(body) == IF PathMissing(body) THEN Reject("watch") ELSE AddWatchFolder(body.path)

DeleteWatch(body) == IF PathMissing(body) THEN Reject("unwatch") ELSE RemoveWatchFolder(body.path)

\* The catch of POST /api/folders/watch: addWatchFolder has thrown, here at
\* chokidar.watch after a walk that ended with a listing; the route creates
\* a Folder for the path and answers that the path is registered.
PostWatchFallback(w) ==
  /\ w.pc = "readdir"
  /\ LET n == Len(w.stack)
         dir == w.stack[n].dir
         listed == IF Listable(dir)
                   THEN [w.stack EXCEPT ![n].entries = ReadDir(dir)]
                   ELSE SkipDirectory(w.stack)
         adv == Advance(listed, folders, currentFolderId)
     IN  /\ adv.pc = "done"
         /\ folders' = CreateFolder(adv.folders, adv.nf, RootFolderInsert(w.root))
         /\ currentFolderId' = adv.nf + 1
  /\ watchCalls' = watchCalls \ {w}
  /\ last' = [op |-> "addWatchFolder.failed", path |-> w.root, flag |-> FALSE]
  /\ UNCHANGED <<assets, currentAssetId, watchers, subs, fsFiles, callbacks, scanCalls,
                 removeCalls, edited, clientVars, ops>>

----------------------------------------------------------------------------
(* PUT /api/assets/:id with { tags, metadata }.                            *)

EditValues == {"e1", "e2"}

ClientEdit(v) == [tags |-> <<v>>, metadata |-> [note |-> v]]

PutAsset(id, v) ==
  /\ ops' = ops + 1
  /\ id \in DOMAIN assets
  /\ assets' = UpdateAsset(assets, id, ClientEdit(v))
  /\ edited' = (id :> [value |-> v, at |-> assets[id].lastModified]) @@ edited
  /\ UNCHANGED clientVars
  /\ last' = [op |-> "updateAsset", path |-> assets[id].filepath, flag |-> TRUE]
  /\ UNCHANGED <<folders, currentAssetId, currentFolderId, watchers, subs, fsFiles,
                 watchCalls, callbacks, scanCalls, removeCalls>>

\* The columns updateAssetSchema keeps: id, filepath and createdAt are omitted.
UpdateAssetKeys ==
  {"filename", "filesize", "filetype", "thumbnailPath", "tags", "metadata", "lastModified"}

\* Request bodies of a client: one with keys the schema does not have.
UpdateBodies ==
  {[id |-> 99, filepath |-> "/r", createdAt |-> 99, tags |-> <<"e1">>],
   [filesize |-> 1]}

ParseUpdateLoose(body) == body

\* updateAssetSchema.parse(req.body): the keys that are not of the schema
\* are stripped.
ParseUpdate(body) == [f \in DOMAIN body \cap UpdateAssetKeys |-> body[f]]

\* PUT /api/assets/:id with any body.
PutAssetBody(id, body) ==
  /\ ops' = ops + 1
  /\ assets' = UpdateAsset(assets, id, ParseUpdate(body))
  /\ last' = [op |-> "updateAsset", path |-> "", flag |-> id \in DOMAIN assets, id |-> id]
  /\ UNCHANGED <<folders, currentAssetId, currentFolderId, watchers, subs, fsFiles,
                 watchCalls, callbacks, scanCalls, removeCalls, edited, clientVars>>

\* DELETE /api/assets/:id.
DeleteAssetRoute(id) ==
  /\ ops' = ops + 1
  /\ assets' = DeleteAsset(assets, id)
  /\ last' = [op |-> "deleteAsset", path |-> "", flag |-> id \in DOMAIN assets, id |-> id]
  /\ UNCHANGED <<folders, currentAssetId, currentFolderId, watchers, subs, fsFiles,
                 watchCalls, callbacks, scanCalls, removeCalls, edited, clientVars>>

----------------------------------------------------------------------------
(* The environment: files are created, written and deleted, and every open *)
(* subscription whose root lies above the file queues the event.           *)

Emit(kind, p) ==
  subs' = [i \in DOMAIN subs |->
             IF subs[i].open /\ Covers(subs[i].root, p)
             THEN [subs[i] EXCEPT !.queue = Append(@, [kind |-> kind, path |-> p, ev |-> ops + 1])]
             ELSE subs[i]]

FsChange(p, kind, m, sz) ==
  /\ ops' = ops + 1
  /\ fsFiles' = [fsFiles EXCEPT ![p] = [mtime |-> m, size |-> sz,
                                         birth |-> IF kind = "add" THEN m
                                                   ELSE IF kind = "unlink" THEN 0 ELSE @.birth]]
  /\ Emit(kind, p)
  /\ UNCHANGED <<assets, folders, currentAssetId, currentFolderId, watchers, watchCalls,
                 callbacks, scanCalls, removeCalls, edited, clientVars, last>>

FsCreate(p, m, sz) == fsFiles[p].mtime = 0 /\ FsChange(p, "add", m, sz)

FsWrite(p, m, sz) == fsFiles[p].mtime > 0 /\ FsChange(p, "change", m, sz)

FsDelete(p) == fsFiles[p].mtime > 0 /\ FsChange(p, "unlink", 0, 0)

FsMkdir(p) == fsFiles[p].mtime = 0 /\ FsChange(p, "addDir", 1, 0)

FsRmdir(p) == fsFiles[p].mtime > 0 /\ FsChange(p, "unlinkDir", 0, 0)

----------------------------------------------------------------------------
(* The client's ModelPreloader.  A cache key stands for one                *)
(* `${filetype}_${filename}`; keys are numbered in the order in which they *)
(* are first requested.  An action is the code between two awaits of a     *)
(* load; each read of Date.now() gives the next instant.                   *)

MAX_CACHE_SIZE_MB == 100
MAX_CACHED_MODELS == 20

\* The number of cache keys, the number of keys requested one after another
\* before calls overlap, and the number of calls beyond one per key.
MaxKeys == 24
FillKeys == 20
ExtraCalls == 1

\* The keys whose model is large, and the key whose load fails.
BigKeys == {1, 2}
FailKeys == {MaxKeys - 1}

\* estimateModelSize(model), in MB.
EstimateModelSize(key) == IF key \in BigKeys THEN 60 ELSE 1

CacheKeys(C) == {C[i].key : i \in 1..Len(C)}

\* getCurrentCacheSize().
RECURSIVE GetCurrentCacheSize(_)
GetCurrentCacheSize(C) ==
  IF C = << >> THEN 0 ELSE Head(C).size + GetCurrentCacheSize(Tail(C))

\* Array.prototype.sort by lastUsed, oldest first, equal ones in Map order.
RECURSIVE SortByLastUsed(_)
SortByLastUsed(C) ==
  IF C = << >> THEN << >>
  ELSE LET i == CHOOSE k \in 1..Len(C) :
                  \A j \in 1..Len(C) :
                     C[k].lastUsed < C[j].lastUsed \/ (C[k].lastUsed = C[j].lastUsed /\ k <= j)
       IN  <<C[i]>> \o SortByLastUsed(SubSeq(C, 1, i - 1) \o SubSeq(C, i + 1, Len(C)))

\* globalModelCache.delete(key).
CacheDelete(C, key) == SelectSeq(C, LAMBDA e : e.key # key)

\* globalModelCache.set(key, entry): a key that is there keeps its place.
CacheSet(C, entry) ==
  IF entry.key \in CacheKeys(C)
  THEN [i \in 1..Len(C) |-> IF C[i].key = entry.key THEN entry ELSE C[i]]
  ELSE Append(C, entry)

NeedsCleaningOverFull(C, newModelSize) ==
  GetCurrentCacheSize(C) + newModelSize > MAX_CACHE_SIZE_MB \/ Len(C) > MAX_CACHED_MODELS

\* The condition of cleanCache's if and of its while.
NeedsCleaning(C, newModelSize) ==
  GetCurrentCacheSize(C) + newModelSize > MAX_CACHE_SIZE_MB \/ Len(C) >= MAX_CACHED_MODELS

\* The while loop of cleanCache over the sorted entries.
RECURSIVE RemoveOldest(_, _, _)
RemoveOldest(C, entries, newModelSize) ==
  IF entries # << >> /\ NeedsCleaning(C, newModelSize)
  THEN RemoveOldest(CacheDelete(C, Head(entries).key), Tail(entries), newModelSize)
  ELSE C

\* cleanCache(newModelSize).
CleanCache(C, newModelSize) ==
  IF NeedsCleaning(C, newModelSize)
  THEN RemoveOldest(C, SortByLastUsed(C), newModelSize)
  ELSE C

PreloadModelAgain(key) ==
  /\ calls' = calls + 1
  /\ keysUsed' = IF key > keysUsed THEN key ELSE keysUsed
  /\ IF key \in CacheKeys(globalModelCache)
     THEN /\ globalModelCache' =
               [i \in 1..Len(globalModelCache) |->
                  IF globalModelCache[i].key = key
                  THEN [globalModelCache[i] EXCEPT !.lastUsed = clock]
                  ELSE globalModelCache[i]]
          /\ clock' = clock + 1
          /\ UNCHANGED <<loadingPromises, loads, waiting>>
     ELSE /\ loads' = loads \cup {[key |-> key, call |-> calls + 1]}
          /\ loadingPromises' = (key :> calls + 1) @@ loadingPromises
          /\ UNCHANGED <<globalModelCache, waiting, clock>>
  /\ UNCHANGED <<assets, folders, currentAssetId, currentFolderId, watchers, subs, fsFiles,
                 watchCalls, callbacks, scanCalls, removeCalls, edited, ops, last>>

\* preloadModel(filename, filetype), up to its return or its await.
PreloadModel(key) ==
  /\ calls' = calls + 1
  /\ keysUsed' = IF key > keysUsed THEN key ELSE keysUsed
  /\ IF key \in CacheKeys(globalModelCache)
     THEN /\ globalModelCache' =
               [i \in 1..Len(globalModelCache) |->
                  IF globalModelCache[i].key = key
                  THEN [globalModelCache[i] EXCEPT !.lastUsed = clock]
                  ELSE globalModelCache[i]]
          /\ clock' = clock + 1
          /\ UNCHANGED <<loadingPromises, loads, waiting>>
     ELSE IF key \in DOMAIN loadingPromises
     THEN /\ waiting' = waiting \cup {[key |-> key, call |-> calls + 1]}
          /\ UNCHANGED <<globalModelCache, loadingPromises, loads, clock>>
     ELSE /\ loads' = loads \cup {[key |-> key, call |-> calls + 1]}
          /\ loadingPromises' = (key :> calls + 1) @@ loadingPromises
          /\ UNCHANGED <<globalModelCache, waiting, clock>>
  /\ UNCHANGED <<assets, folders, currentAssetId, currentFolderId, watchers, subs, fsFiles,
                 watchCalls, callbacks, scanCalls, removeCalls, edited, ops, last>>

\* The calls that await the promise of the load l resume with its outcome.
StillWaiting(l) == {c \in waiting : loadingPromises[c.key] # l.call}

\* The load resolves: cleanCache, globalModelCache.set, loadingPromises.delete.
LoadResolves(l) ==
  /\ l.key \notin FailKeys
  /\ globalModelCache' =
       CacheSet(CleanCache(globalModelCache, EstimateModelSize(l.key)),
                [key |-> l.key, lastUsed |-> clock, size |-> EstimateModelSize(l.key)])
  /\ clock' = clock + 1
  /\ loadingPromises' = [k \in DOMAIN loadingPromises \ {l.key} |-> loadingPromises[k]]
  /\ loads' = loads \ {l}
  /\ waiting' = StillWaiting(l)
  /\ UNCHANGED <<calls, keysUsed>>
  /\ UNCHANGED <<assets, folders, currentAssetId, currentFolderId, watchers, subs, fsFiles,
                 watchCalls, callbacks, scanCalls, removeCalls, edited, ops, last>>

\* The load rejects: the catch deletes the promise and rethrows.
LoadRejects(l) ==
  /\ l.key \in FailKeys
  /\ loadingPromises' = [k \in DOMAIN loadingPromises \ {l.key} |-> loadingPromises[k]]
  /\ loads' = loads \ {l}
  /\ waiting' = StillWaiting(l)
  /\ UNCHANGED <<globalModelCache, clock, calls, keysUsed>>
  /\ UNCHANGED <<assets, folders, currentAssetId, currentFolderId, watchers, subs, fsFiles,
                 watchCalls, callbacks, scanCalls, removeCalls, edited, ops, last>>

----------------------------------------------------------------------------
(* The system.                                                             *)

InitProgram ==
  /\ assets = DemoAssets
  /\ folders = << >>
  /\ currentAssetId = 4
  /\ currentFolderId = 1
  /\ watchers = << >>
  /\ subs = << >>
  /\ watchCalls = {}
  /\ callbacks = {}
  /\ scanCalls = {}
  /\ removeCalls = {}
  /\ edited = << >>
  /\ ops = 0
  /\ last = [op |-> "init", path |-> "", flag |-> FALSE]
  /\ globalModelCache = << >>
  /\ loadingPromises = << >>
  /\ loads = {}
  /\ waiting = {}
  /\ clock = 0
  /\ calls = 0
  /\ keysUsed = 0

Init ==
  /\ InitProgram
  /\ fsFiles \in [Files -> {Absent, [mtime |-> 1, size |-> SizeAt(1), birth |-> 1]}]

\* The steps the program takes when an I/O operation of a walk completes.
WalkSteps ==
  \/ \E w \in watchCalls : WalkReadDir(w)
  \/ \E w \in watchCalls : WalkStat(w)
  \/ \E w \in watchCalls : \E t \in ThumbnailResults(w.path) : WalkThumb(w, t)

\* The steps of the handlers' processAsset.
CallbackSteps ==
  \/ \E cb \in callbacks : CallbackStat(cb)
  \/ \E cb \in callbacks : \E t \in ThumbnailResults(cb.path) : CallbackThumb(cb, t)

ScanSteps ==
  \/ \E sc \in scanCalls : ScanReadDir(sc)
  \/ \E sc \in scanCalls : ScanStat(sc)

\* Files change; a size goes with each modification time.
FsSteps ==
  \/ \E p \in Files : FsCreate(p, 1, SizeAt(1))
  \/ \E p \in Files : \E m \in {1, fsFiles[p].mtime + 1} : FsWrite(p, m, SizeAt(m))
  \/ \E p \in Files : FsDelete(p)

\* The number of requests and filesystem changes of a behaviour is bounded.
Budget == ops < MaxOps

\* The whole system.
Next ==
  \/ Budget /\ \E root \in WatchRoots : AddWatchFolder(root)
  \/ Budget /\ \E root \in WatchRoots : RemoveWatchFolder(root)
  \/ Budget /\ \E root \in WatchRoots : ScanFolder(root)
  \/ Budget /\ \E id \in DOMAIN assets : \E v \in EditValues :
                 assets[id].filepath \in Files /\ PutAsset(id, v)
  \/ Budget /\ FsSteps
  \/ WalkSteps
  \/ \E i \in DOMAIN subs : OnAddOrChange(i)
  \/ \E i \in DOMAIN subs : OnUnlink(i)
  \/ CallbackSteps
  \/ \E rc \in removeCalls : RemoveFinish(rc)
  \/ ScanSteps

Spec == Init /\ [][Next]_vars

\* The watcher alone: watch and unwatch requests, filesystem events.
NextWatcher ==
  \/ Budget /\ \E root \in WatchRoots : AddWatchFolder(root)
  \/ Budget /\ \E root \in WatchRoots : RemoveWatchFolder(root)
  \/ Budget /\ FsSteps
  \/ WalkSteps
  \/ \E i \in DOMAIN subs : OnAddOrChange(i)
  \/ \E i \in DOMAIN subs : OnUnlink(i)
  \/ CallbackSteps
  \/ \E rc \in removeCalls : RemoveFinish(rc)

SpecWatcher == Init /\ [][NextWatcher]_vars

\* Client edits against add and change events: no delete, no scan.
NextEdit ==
  \/ Budget /\ \E root \in WatchRoots : AddWatchFolder(root)
  \/ Budget /\ \E id \in DOMAIN assets : \E v \in EditValues :
                 assets[id].filepath \in Files /\ PutAsset(id, v)
  \/ Budget /\ \E p \in Files : FsCreate(p, 1, SizeAt(1))
  \/ Budget /\ \E p \in Files : \E m \in {1, fsFiles[p].mtime + 1} : FsWrite(p, m, SizeAt(m))
  \/ WalkSteps
  \/ \E i \in DOMAIN subs : OnAddOrChange(i)
  \/ CallbackSteps

SpecEdit == Init /\ [][NextEdit]_vars

\* One operation at a time: a request is made and an event is handed to its
\* handler only when no walk and no handler is suspended.
NothingInFlight == watchCalls = {} /\ callbacks = {} /\ scanCalls = {} /\ removeCalls = {}

NextSerial ==
  \/ Budget /\ NothingInFlight /\ \E root \in WatchRoots : AddWatchFolder(root)
  \/ Budget /\ \E p \in Files : \E sz \in Sizes : FsCreate(p, 1, sz)
  \/ Budget /\ \E p \in Files : \E m \in {1, fsFiles[p].mtime + 1} : \E sz \in Sizes :
                 FsWrite(p, m, sz)
  \/ Budget /\ \E p \in Files : FsDelete(p)
  \/ WalkSteps
  \/ NothingInFlight /\ \E i \in DOMAIN subs : OnAddOrChange(i)
  \/ NothingInFlight /\ \E i \in DOMAIN subs : OnUnlink(i)
  \/ CallbackSteps

SpecSerial == Init /\ [][NextSerial]_vars

\* The scenario: watch a root, then create a file in it, modify it with a
\* newer mtime, delete it.  ops counts the steps of the script.
ScenarioRoot == "/r/s"
ScenarioFile == "/r/s/a.obj"

InitScenario ==
  /\ InitProgram
  /\ fsFiles = [p \in Files |-> Absent]

Watching(root) == root \in DOMAIN watchers /\ watchCalls = {}

NextScenario ==
  \/ ops = 0 /\ AddWatchFolder(ScenarioRoot)
  \/ ops = 1 /\ Watching(ScenarioRoot) /\ FsCreate(ScenarioFile, 1, SizeAt(1))
  \/ ops = 2 /\ FsWrite(ScenarioFile, 2, SizeAt(2))
  \/ ops = 3 /\ FsDelete(ScenarioFile)
  \/ \E w \in watchCalls : WalkReadDir(w)
  \/ \E i \in DOMAIN subs : OnAddOrChange(i)
  \/ \E i \in DOMAIN subs : OnUnlink(i)
  \/ CallbackSteps

SpecScenario == InitScenario /\ [][NextScenario]_vars

\* Requests on the tree /m, one at a time: watch, unwatch, scan, and the
\* listing of subfolders.
FolderRoots == {"/m", "/m/k"}

InitTree ==
  /\ InitProgram
  /\ fsFiles = [p \in Files |-> Absent]

NextFolders ==
  \/ Budget /\ NothingInFlight /\ \E root \in FolderRoots : AddWatchFolder(root)
  \/ Budget /\ NothingInFlight /\ \E root \in FolderRoots : RemoveWatchFolder(root)
  \/ Budget /\ NothingInFlight /\ \E root \in FolderRoots : ScanFolder(root)
  \/ Budget /\ NothingInFlight /\ \E parent \in FolderRoots : GetSubfoldersRoute(parent)
  \/ WalkSteps
  \/ ScanSteps
  \/ \E rc \in removeCalls : RemoveFinish(rc)

SpecFolders == InitTree /\ [][NextFolders]_vars

\* Walks of the trees /m, /t and /c, one at a time, by the watcher and by
\* the scan route.
TreeRoots == {"/m", "/t", "/c"}

NextTree ==
  \/ Budget /\ NothingInFlight /\ \E root \in TreeRoots : AddWatchFolder(root)
  \/ Budget /\ NothingInFlight /\ \E root \in TreeRoots : ScanFolder(root)
  \/ WalkSteps
  \/ ScanSteps

SpecTree == InitTree /\ [][NextTree]_vars

\* The watcher on /r/s and what happens in that directory: a.obj, absent at
\* first, and a.max are created, written and deleted, the directory g is
\* created and removed.
InitEvents ==
  /\ InitProgram
  /\ fsFiles \in [EventFiles \cup EventDirs ->
                    {Absent, [mtime |-> 1, size |-> SizeAt(1), birth |-> 1]}]
  /\ fsFiles["/r/s/a.obj"] = Absent

NextEvents ==
  \/ Budget /\ AddWatchFolder("/r/s")
  \/ Budget /\ \E p \in EventFiles : FsCreate(p, 1, SizeAt(1))
  \/ Budget /\ \E p \in EventFiles : FsWrite(p, fsFiles[p].mtime + 1, SizeAt(fsFiles[p].mtime + 1))
  \/ Budget /\ \E p \in EventFiles : FsDelete(p)
  \/ Budget /\ \E p \in EventDirs : FsMkdir(p)
  \/ Budget /\ \E p \in EventDirs : FsRmdir(p)
  \/ WalkSteps
  \/ \E i \in DOMAIN subs : OnAddOrChange(i)
  \/ \E i \in DOMAIN subs : OnUnlink(i)
  \/ \E i \in DOMAIN subs : OnDirEvent(i)
  \/ CallbackSteps

SpecEvents == InitEvents /\ [][NextEvents]_vars

\* The folder routes with every kind of body, requests overlapping, on the
\* nested roots /r and /r/s and on /n, which does not exist; no file is in
\* the tree, so the watcher's walk only lists.
RoutePaths == {"/r", "/r/s", "/n"}

NextRequests ==
  \/ Budget /\ \E body \in Bodies(RoutePaths) : PostWatch(body)
  \/ Budget /\ \E body \in Bodies(RoutePaths) : DeleteWatch(body)
  \/ Budget /\ \E body \in Bodies(RoutePaths) : PostScan(body)
  \/ \E w \in watchCalls : WalkReadDir(w)
  \/ \E w \in watchCalls : PostWatchFallback(w)
  \/ ScanSteps
  \/ \E rc \in removeCalls : RemoveFinish(rc)

SpecRequests == InitTree /\ [][NextRequests]_vars

\* Watch and scan requests on /e, overlapping.
NextFormats ==
  \/ Budget /\ AddWatchFolder("/e")
  \/ Budget /\ ScanFolder("/e")
  \/ WalkSteps
  \/ ScanSteps

SpecFormats == InitTree /\ [][NextFormats]_vars

\* The ids a client names: those of the files' Assets, the first demo Asset
\* and one that was never assigned.
ClientIds == {i \in DOMAIN assets : i = 1 \/ assets[i].filepath \in Files} \cup {99}

\* Creates, updates and deletes on one root: the watcher, the scan route and
\* the asset routes.
NextIds ==
  \/ Budget /\ AddWatchFolder(ScenarioRoot)
  \/ Budget /\ ScanFolder(ScenarioRoot)
  \/ Budget /\ \E id \in ClientIds : \E body \in UpdateBodies : PutAssetBody(id, body)
  \/ Budget /\ \E id \in ClientIds : DeleteAssetRoute(id)
  \/ Budget /\ FsSteps
  \/ WalkSteps
  \/ \E i \in DOMAIN subs : OnAddOrChange(i)
  \/ \E i \in DOMAIN subs : OnUnlink(i)
  \/ CallbackSteps
  \/ ScanSteps

SpecIds == Init /\ [][NextIds]_vars

\* /r and then /r/s are watched, /r/s is unwatched, and the file of /r/s is
\* created, written or deleted afterwards.
NextNested ==
  \/ ops = 0 /\ AddWatchFolder("/r")
  \/ ops = 1 /\ AddWatchFolder("/r/s")
  \/ ops = 2 /\ Watching("/r") /\ "/r/s" \in DOMAIN watchers /\ RemoveWatchFolder("/r/s")
  \/ ops \in {3, 4} /\ FsSteps
  \/ \E w \in watchCalls : WalkReadDir(w)
  \/ \E i \in DOMAIN subs : OnAddOrChange(i)
  \/ \E i \in DOMAIN subs : OnUnlink(i)
  \/ CallbackSteps
  \/ \E rc \in removeCalls : RemoveFinish(rc)

SpecNested == InitScenario /\ [][NextNested]_vars

\* Scan requests on /p and on /p/Characters, overlapping.
TagRoots == {"/p", "/p/Characters"}

NextTags ==
  \/ Budget /\ \E root \in TagRoots : ScanFolder(root)
  \/ ScanSteps

SpecTags == InitTree /\ [][NextTags]_vars

\* The keys of the next call: the next new key, or, ExtraCalls times, the
\* first key or the newest one again.
RequestKeys ==
  ((IF calls - keysUsed < ExtraCalls THEN {1, keysUsed} ELSE {}) \cup {keysUsed + 1})
     \cap 1..MaxKeys

\* The client: the first FillKeys keys are requested while no load is in
\* flight, the others and the repeated requests at any time.
NextCache ==
  \/ /\ keysUsed < FillKeys => loads = {}
     /\ \E key \in RequestKeys : PreloadModel(key)
  \/ \E l \in loads : LoadResolves(l)
  \/ \E l \in loads : LoadRejects(l)

SpecCache == InitTree /\ [][NextCache]_vars

\* A walk in flight waits for a readdir, a stat or a thumbnail; each of its
\* steps is enabled exactly when its walk is at that await.
WalkAwaits ==
  \/ \E w \in watchCalls : w.pc \in {"readdir", "stat", "thumb"}
  \/ \E sc \in scanCalls : sc.pc \in {"readdir", "stat"}

\* Every I/O operation a walk waits for completes: the weak fairness
\* WF_vars(WalkSteps \/ ScanSteps), with ENABLED written out as WalkAwaits.
SpecTreeFair ==
  SpecTree /\ ([]<>(~WalkAwaits) \/ []<><<WalkSteps \/ ScanSteps>>_vars)

----------------------------------------------------------------------------
(* Properties.                                                             *)

FileAssets(p) == {i \in DOMAIN assets : assets[i].filepath = p}

QueuesEmpty == \A i \in DOMAIN subs : subs[i].queue = << >>

\* C1: no two live Assets have the same filepath, in every reachable state of
\* the whole system (watcher callbacks, initial walks, scan requests).
C1_UniqueFilepath ==
  \A i, j \in DOMAIN assets : assets[i].filepath = assets[j].filepath => i = j

\* The continuation, at generateThumbnail, of the processAsset that x is.
ContinuedCallback(x) == {c \in callbacks' : c.sub = x.sub /\ c.ev = x.ev}
ContinuedWalk(x) == {v \in watchCalls' : v.cid = x.cid /\ v.pc = "thumb"}

\* The step in which x's fs.stat completes, for a path that is indexed.
GuardAtStat(x, continued) ==
  LET a == GetAssetByPath(assets, x.path)
      st == StatOf(x.path)
  IN  (a # NoId /\ st.mtime > 0) =>
        /\ assets' = assets
        /\ IF st.mtime <= assets[a].lastModified
           THEN continued = {}
           ELSE \E c \in continued :
                  /\ continued = {c}
                  /\ c.pc = "thumb" /\ c.assetId = a
                  /\ c.mtime = st.mtime /\ c.size = st.size

\* The step in which x's generateThumbnail completes, in the update branch.
UpdateAtThumb(x) ==
  x.assetId # NoId =>
    /\ x.assetId \in DOMAIN assets
    /\ x.mtime > assets[x.assetId].lastModified
    /\ \E t \in ThumbnailResults(x.path) :
         assets' = [assets EXCEPT ![x.assetId].filesize = x.size,
                                  ![x.assetId].lastModified = x.mtime,
                                  ![x.assetId].thumbnailPath = t]

\* C2: one upsert of an indexed path run in isolation: with observed mtime <= T
\* the assets are unchanged and no thumbnail is requested; with observed
\* mtime > T a thumbnail is requested and filesize and lastModified become the
\* observed values, thumbnailPath the thumbnail result, nothing else changes.
C2_UpsertGuard ==
  [][/\ \A cb \in callbacks : cb \notin callbacks' =>
           /\ cb.pc = "stat" => GuardAtStat(cb, ContinuedCallback(cb))
           /\ cb.pc = "thumb" => UpdateAtThumb(cb)
     /\ \A w \in watchCalls : w \notin watchCalls' =>
           /\ w.pc = "stat" => GuardAtStat(w, ContinuedWalk(w))
           /\ w.pc = "thumb" => UpdateAtThumb(w)]_vars

\* An update has been applied (lastModified 2), then a change event with an
\* older mtime and another size was handled and left the Asset as it was.
C2_Witness ==
  /\ last.op = "change" /\ callbacks = {} /\ QueuesEmpty
  /\ \E p \in Files : \E a \in FileAssets(p) :
       /\ assets[a].lastModified = 2
       /\ fsFiles[p].mtime = 1
       /\ assets[a].filesize # fsFiles[p].size

\* C3: across the steps of watcher callbacks the lastModified of an Asset that
\* stays in the repository never decreases.
C3_LastModifiedMonotone ==
  [][(\E cb \in callbacks : cb \notin callbacks') =>
        \A id \in DOMAIN assets \cap DOMAIN assets' :
           assets'[id].lastModified >= assets[id].lastModified]_vars

\* C4: every Asset the client has edited carries the tags and the metadata of
\* the client's last edit, whatever add/change callbacks ran since.
C4_EditsSurvive ==
  \A id \in DOMAIN edited :
     /\ id \in DOMAIN assets
     /\ assets[id].tags = ClientEdit(edited[id].value).tags
     /\ assets[id].metadata = ClientEdit(edited[id].value).metadata

\* A watcher update has been applied to an Asset after the client's last edit.
C4_Witness ==
  \E id \in DOMAIN edited : id \in DOMAIN assets /\ assets[id].lastModified > edited[id].at

\* C5: when the scenario is over (add, change, unlink delivered, every callback
\* finished) no Asset has the file's path.
C5_ScenarioEndsEmpty ==
  (ops = 4 /\ callbacks = {} /\ QueuesEmpty) => FileAssets(ScenarioFile) = {}

\* The step in which subscription i hands an unlink event to its handler.
UnlinkStep(i) ==
  /\ subs[i].open
  /\ subs[i].queue # << >>
  /\ Head(subs[i].queue).kind = "unlink"
  /\ subs' = [subs EXCEPT ![i].queue = Tail(@)]

\* C6: an unlink event for p removes one Asset with filepath p if there is
\* one, and leaves every other Asset and every Folder as it was; with no such
\* Asset the repository is unchanged.
C6_UnlinkFrame ==
  [][\A i \in DOMAIN subs : UnlinkStep(i) =>
        LET p == Head(subs[i].queue).path
        IN  /\ UNCHANGED <<folders, currentAssetId, currentFolderId>>
            /\ IF FileAssets(p) = {}
               THEN assets' = assets
               ELSE \E a \in FileAssets(p) :
                      /\ DOMAIN assets' = DOMAIN assets \ {a}
                      /\ \A j \in DOMAIN assets' : assets'[j] = assets[j]]_vars

\* An unlink event has removed the file's Asset; the others are still there.
C6_Witness ==
  /\ last = [op |-> "unlink", path |-> "/r/s/a.obj", flag |-> TRUE]
  /\ FileAssets("/r/s/a.obj") = {}
  /\ DOMAIN assets = {1, 2, 3}

\* C7: a callback whose subscription was closed by a removeWatchFolder that has
\* returned does not change the assets.
C7_NoWriteAfterUnwatch ==
  [][\A cb \in callbacks :
        (/\ cb \notin callbacks'
         /\ ~subs[cb.sub].open
         /\ \A rc \in removeCalls : rc.sub # cb.sub) => assets' = assets]_vars

\* C8: while an addWatchFolder call is in its initial walk, the subscription
\* of that call does not exist, and no callback of it is running.
C8_WalkBeforeSubscription ==
  \A w \in watchCalls :
     /\ \A i \in DOMAIN subs : subs[i].by # w.cid
     /\ \A cb \in callbacks : subs[cb.sub].by # w.cid

\* A call has walked its root, indexed the file and subscribed; a callback of
\* its subscription is running.
C8_Witness ==
  /\ watchCalls = {}
  /\ \E cb \in callbacks : subs[cb.sub].open /\ FileAssets(cb.path) # {}

\* C9: addWatchFolder(path) on a path in the watcher map changes nothing: no
\* walk, no subscription, the same watcher map and repository.
C9_AddWatchNoop ==
  [][\A root \in WatchRoots :
        (root \in DOMAIN watchers /\ AddWatchFolder(root)) =>
           UNCHANGED <<assets, folders, currentAssetId, currentFolderId, watchers, subs,
                       fsFiles, watchCalls, callbacks, scanCalls, removeCalls>>]_vars

\* addWatchFolder has just been called on a watched path.
C9_Witness ==
  /\ last = [op |-> "addWatchFolder", path |-> "/r", flag |-> TRUE]
  /\ "/r" \in DOMAIN watchers

\* Only the first Folder with this path changes, and only its isWatched.
OnlyUnwatched(root) ==
  /\ DOMAIN folders' = DOMAIN folders
  /\ \E f \in DOMAIN folders :
       /\ folders[f].path = root
       /\ folders'[f] = [folders[f] EXCEPT !.isWatched = FALSE]
       /\ \A g \in DOMAIN folders \ {f} : folders'[g] = folders[g]

\* C10: removeWatchFolder(path) on a watched path closes the subscription of
\* the path, removes the path from the watcher map and sets isWatched = false
\* on the path's Folder; no Folder is deleted, no other Folder and no Asset
\* changes.
C10_RemoveFrame ==
  [][/\ \A root \in WatchRoots :
           (root \in DOMAIN watchers /\ RemoveWatchFolder(root)) =>
              /\ ~subs'[watchers[root]].open
              /\ UNCHANGED <<assets, currentAssetId, folders, currentFolderId>>
     /\ \A rc \in removeCalls :
           RemoveFinish(rc) =>
              /\ rc.root \notin DOMAIN watchers'
              /\ ~subs'[rc.sub].open
              /\ OnlyUnwatched(rc.root)
              /\ UNCHANGED <<assets, currentAssetId, currentFolderId>>]_vars

\* removeWatchFolder("/r") has returned: "/r" is unwatched, its subfolder is
\* still watched and the file's Asset is still there.
C10_Witness ==
  /\ last = [op |-> "removeWatchFolder.returned", path |-> "/r", flag |-> TRUE]
  /\ "/r" \notin DOMAIN watchers
  /\ ~folders[GetFolderByPath(folders, "/r")].isWatched
  /\ GetFolderByPath(folders, "/r/s") # NoId
  /\ folders[GetFolderByPath(folders, "/r/s")].isWatched
  /\ FileAssets("/r/s/a.obj") # {}

\* removeWatchFolder(root) called on a path that is not in the watcher map.
RemoveUnwatched(root) == root \notin DOMAIN watchers /\ RemoveWatchFolder(root)

\* The previous request was a removeWatchFolder(root) that has returned.
JustRemoved(root) ==
  \/ last.op = "removeWatchFolder.returned" /\ last.path = root
  \/ last.op = "removeWatchFolder" /\ last.path = root /\ ~last.flag

\* C11 (as stated): removeWatchFolder(path) on a path that is not watched (a
\* second call, or a path that never was) closes nothing and leaves the
\* watcher map and the Repository unchanged.
C11_RemoveUnwatchedNoop ==
  [][\A root \in FolderRoots :
        RemoveUnwatched(root) =>
           UNCHANGED <<assets, folders, currentAssetId, currentFolderId, watchers, subs,
                       removeCalls>>]_vars

\* C11 (amended): removeWatchFolder(path) on a path that is not in the watcher
\* map closes nothing and changes no Asset, no other Folder and not the
\* watcher map; the Folder of path, if there is one, ends with isWatched =
\* false; right after a removeWatchFolder(path) nothing changes at all.
C11_RemoveUnwatchedFrame ==
  [][\A root \in FolderRoots :
        RemoveUnwatched(root) =>
           /\ UNCHANGED <<assets, currentAssetId, currentFolderId, watchers, subs, removeCalls>>
           /\ DOMAIN folders' = DOMAIN folders
           /\ \A f \in DOMAIN folders :
                folders'[f] = IF f = GetFolderByPath(folders, root)
                              THEN [folders[f] EXCEPT !.isWatched = FALSE]
                              ELSE folders[f]
           /\ JustRemoved(root) => folders' = folders]_vars

\* removeWatchFolder("/m") has been called again after "/m" was watched and
\* unwatched.
C11_Witness ==
  /\ last = [op |-> "removeWatchFolder", path |-> "/m", flag |-> FALSE]
  /\ "/m" \notin DOMAIN watchers
  /\ \E i \in DOMAIN subs : subs[i].root = "/m" /\ ~subs[i].open
  /\ ~folders[GetFolderByPath(folders, "/m")].isWatched

\* C12: when addWatchFolder(path) completes (its subscription is created and
\* path enters the watcher map), the Folder of path has isWatched = true.
C12_WatchedAfterAdd ==
  [][\A w \in watchCalls :
        (/\ watchCalls' = watchCalls \ {w}
         /\ Len(subs') = Len(subs) + 1
         /\ w.root \in DOMAIN watchers') =>
           /\ GetFolderByPath(folders', w.root) # NoId
           /\ folders'[GetFolderByPath(folders', w.root)].isWatched]_vars

\* child is parent, one separator and one further segment.
IsDirectChild(child, parent) ==
  LET c == Chars[child]
      pre == Chars[parent] \o <<Sep>>
  IN  /\ StartsWith(c, pre)
      /\ Len(c) > Len(pre)
      /\ ~Includes(SubSeq(c, Len(pre) + 1, Len(c)), <<Sep>>)

\* C13: every Folder getSubfolders(parentPath) returns is a direct child of
\* parentPath.
C13_OnlyDirectChildren ==
  last.op = "getSubfolders" =>
     \A i \in last.result : IsDirectChild(folders[i].path, last.path)

\* C14: getSubfolders(parentPath) returns every Folder that is a direct child
\* of parentPath, whatever its isWatched.
C14_AllDirectChildren ==
  last.op = "getSubfolders" =>
     \A i \in DOMAIN folders :
        IsDirectChild(folders[i].path, last.path) => i \in last.result

\* An Asset without its id, by the fields a scan sets.
AssetContent(a) ==
  [filepath |-> a.filepath, filename |-> a.filename, filesize |-> a.filesize,
   filetype |-> a.filetype, tags |-> a.tags, metadata |-> a.metadata,
   lastModified |-> a.lastModified]

ContentSet(A) == {AssetContent(A[i]) : i \in DOMAIN A}

\* The step in which the scan request sc completes.
ScanReturns(sc) == scanCalls' = scanCalls \ {sc}

\* C15: a scan request made right after a scan of the same path has returned,
\* over the same tree, creates no Folder and leaves the same Assets by content
\* (and as many of them).
C15_RescanSame ==
  [][/\ \A root \in TreeRoots :
           (last.op = "scanFolder.returned" /\ last.path = root /\ ScanFolder(root)) =>
              folders' = folders
     /\ \A sc \in scanCalls :
           (sc.rerun /\ sc \notin scanCalls') =>
              /\ DOMAIN folders' = DOMAIN folders
              /\ ScanReturns(sc) =>
                   /\ ContentSet(assets') = ContentSet(assets)
                   /\ Cardinality(DOMAIN assets') = Cardinality(DOMAIN assets)]_vars

\* The second scan of /m in a row has returned.
C15_Witness ==
  /\ last = [op |-> "scanFolder.returned", path |-> "/m", flag |-> TRUE, count |-> 1]
  /\ Cardinality(DOMAIN assets) = 1
  /\ FileAssets("/m/k/a.obj") # {}

\* The files that are there now.
PresentFiles == FixedFiles \cup {f \in Files : fsFiles[f].mtime > 0}

\* The names of the directories between root and the file p, then p's name.
SegmentsBelow(root, p) == Split(Slice(Chars[p], Len(Chars[root]) + 1), Sep)

\* The files under root the scan is to index: an extension of the scanner's
\* list, no directory on the way hidden or ignored, the containing directory
\* at most MaxDepth levels below root.
ExpectedScan(root) ==
  {p \in PresentFiles :
     LET segs == SegmentsBelow(root, p)
     IN  /\ StartsWith(Chars[p], Chars[root] \o <<Sep>>)
         /\ \E e \in 1..Len(ScannerExtensions) : Chars[ScannerExtensions[e]] = PathExtLower(p)
         /\ Len(segs) - 1 <= MaxDepth
         /\ \A k \in 1..(Len(segs) - 1) :
              /\ Head(segs[k]) # "."
              /\ \A g \in 1..Len(IgnoredDirs) : Chars[IgnoredDirs[g]] # ToLowerCase(segs[k])}

\* C16: when a scan request on root completes with nothing interleaved, each
\* file of ExpectedScan(root) has exactly one Asset and no Asset has another
\* filepath.
C16_ExactlyOnePerFile ==
  [][\A sc \in scanCalls :
        ScanReturns(sc) =>
           /\ \A p \in ExpectedScan(sc.root) :
                Cardinality({i \in DOMAIN assets' : assets'[i].filepath = p}) = 1
           /\ \A i \in DOMAIN assets' : assets'[i].filepath \in ExpectedScan(sc.root)]_vars

\* A scan of /t has returned with the one file that lies within the depth
\* bound.
C16_Witness ==
  /\ last.op = "scanFolder.returned" /\ last.path = "/t" /\ last.count = 1
  /\ FileAssets(PathJoin(ChainPath("/t", "d", MaxDepth), "a.obj")) # {}
  /\ Cardinality(DOMAIN assets) = 1

\* The Asset createAsset makes of an insert.
AssetOf(id, ins) == CreateAsset(<< >>, id, ins)[id]

\* C17: when a scan request completes, no Asset of before is left, whatever
\* its filepath; the Assets are the walk's results, with fresh ids, and the
\* count returned is their number.
C17_ClearAndRebuild ==
  [][\A sc \in scanCalls :
        ScanReturns(sc) =>
           /\ DOMAIN assets' \cap DOMAIN assets = {}
           /\ DOMAIN assets' = currentAssetId..(currentAssetId' - 1)
           /\ Cardinality(DOMAIN assets') = last'.count
           /\ last'.count \in {Len(sc.found), Len(sc.found) + 1}
           /\ \A k \in 1..Len(sc.found) :
                assets'[currentAssetId + k - 1] =
                   AssetOf(currentAssetId + k - 1, sc.found[k])]_vars

\* /t is watched and its files were indexed; a scan of /m has returned and
\* the only Asset left is the one of /m.
C17_Witness ==
  /\ last.op = "scanFolder.returned" /\ last.path = "/m"
  /\ "/t" \in DOMAIN watchers
  /\ {assets[i].filepath : i \in DOMAIN assets} = {"/m/k/a.obj"}

\* C18: no walk lists a directory more than MaxDepth levels below its root,
\* and no Asset comes from a file in such a directory.
C18_DepthBound ==
  /\ \A w \in watchCalls : Len(w.stack) <= MaxDepth + 1
  /\ \A sc \in scanCalls : Len(sc.stack) <= MaxDepth + 1
  /\ FileAssets(PathJoin(ChainPath("/t", "d", MaxDepth + 1), "a.obj")) = {}

FilepathsOf(A) == {A[i].filepath : i \in DOMAIN A}
FolderPathsOf(F) == {F[i].path : i \in DOMAIN F}

\* C20: a walk of /m, where the listing of x fails and the stat of b.obj
\* fails, completes, and has visited the entries after these two: the
\* directories tmp, k and kk and the file k/a.obj.
C20_FailuresSkipOneEntry ==
  [][/\ \A w \in watchCalls :
           (w.root = "/m" /\ watchCalls' = watchCalls \ {w}) =>
              /\ "/m" \in DOMAIN watchers'
              /\ {"/m/x", "/m/tmp", "/m/k", "/m/kk"} \subseteq FolderPathsOf(folders')
              /\ {"/m/tmp/a.obj", "/m/k/a.obj"} \subseteq FilepathsOf(assets')
              /\ "/m/b.obj" \notin FilepathsOf(assets')
     /\ \A sc \in scanCalls :
           (sc.root = "/m" /\ ScanReturns(sc)) =>
              /\ {"/m/x", "/m/k", "/m/kk"} \subseteq FolderPathsOf(folders')
              /\ FilepathsOf(assets') = {"/m/k/a.obj"}]_vars

\* addWatchFolder("/m") has completed past the two failures.
C20_Witness ==
  /\ "/m" \in DOMAIN watchers
  /\ watchCalls = {}
  /\ "/m/x" \in FolderPathsOf(folders)
  /\ "/m/k/a.obj" \in FilepathsOf(assets)
  /\ "/m/b.obj" \notin FilepathsOf(assets)

\* C21: no two Folder records have the same path.
C21_UniqueFolderPath ==
  \A i, j \in DOMAIN folders : folders[i].path = folders[j].path => i = j

\* The path of the directory that holds p.
PathDirname(p) == Intern(DirnameChars(Chars[p]))

\* C22: a Folder's parentId, when set, is the id of a Folder whose path is
\* the directory holding the folder's own path; and a Folder a walk creates
\* for a subdirectory of a directory that has a Folder gets a parentId.
C22_ParentIsDirectParent ==
  /\ [](\A i \in DOMAIN folders :
          folders[i].parentId # NoId =>
             /\ folders[i].parentId \in DOMAIN folders
             /\ IsDirectChild(folders[i].path, folders[folders[i].parentId].path))
  /\ [][(WalkSteps \/ ScanSteps) =>
           \A i \in DOMAIN folders' \ DOMAIN folders :
              GetFolderByPath(folders, PathDirname(folders'[i].path)) # NoId =>
                 folders'[i].parentId # NoId]_vars

\* The watcher's walk of /r, started after /n was registered, has created
\* the Folder of /r/s below the Folder of /r.
C22_Witness ==
  /\ GetFolderByPath(folders, "/n") = 1
  /\ GetFolderByPath(folders, "/r") # NoId
  /\ GetFolderByPath(folders, "/r/s") # NoId
  /\ folders[GetFolderByPath(folders, "/r/s")].parentId = GetFolderByPath(folders, "/r")
  /\ ~folders[GetFolderByPath(folders, "/r/s")].isWatched
  /\ "/r" \in DOMAIN watchers

\* C23: a Folder has isWatched = true only if its path was given to
\* addWatchFolder or to scanFolder; the requests here name the paths of
\* TreeRoots and no other.
C23_WatchedOnlyRoots ==
  \A i \in DOMAIN folders : folders[i].isWatched => folders[i].path \in TreeRoots

\* The lower-cased extension of p is not one of SUPPORTED_3D_FORMATS.
NotAnAsset(p) ==
  \A k \in 1..Len(SUPPORTED_3D_FORMATS) : Chars[SUPPORTED_3D_FORMATS[k]] # PathExtLower(p)

\* C24: the delivery of an add or change event for a path that is no asset,
\* and of any event for a directory, changes no Asset and no Folder and
\* starts no processAsset.
C24_IgnoredEvents ==
  [][\A i \in DOMAIN subs :
        /\ (/\ subs[i].queue # << >>
            /\ NotAnAsset(Head(subs[i].queue).path)
            /\ OnAddOrChange(i)) =>
              UNCHANGED <<assets, folders, currentAssetId, currentFolderId, callbacks>>
        /\ OnDirEvent(i) =>
              UNCHANGED <<assets, folders, currentAssetId, currentFolderId, callbacks>>]_vars

\* /r/s is watched; g was created afterwards and a.max was written; both
\* events have been delivered and nothing is indexed.
C24_Witness ==
  /\ last = [op |-> "change", path |-> "/r/s/a.max", flag |-> FALSE]
  /\ DirPresent("/r/s/g")
  /\ GetFolderByPath(folders, "/r/s/g") = NoId
  /\ QueuesEmpty
  /\ assets = DemoAssets

\* C25: a scan, watch or unwatch request whose body has no path or an empty
\* one is answered with the rejection; no walk, no close and no subscription
\* is started and the Repository and the watcher map stay as they are.
C25_MalformedRejected ==
  [][\A body \in Bodies(RoutePaths) :
        (/\ "path" \in DOMAIN body => body.path = ""
         /\ (PostScan(body) \/ PostWatch(body) \/ DeleteWatch(body))) =>
           /\ last'.op = "rejected"
           /\ UNCHANGED <<assets, folders, currentAssetId, currentFolderId, watchers, subs,
                          watchCalls, scanCalls, removeCalls>>]_vars

\* A watch request without a usable path was rejected while /r was watched
\* and a scan of /n was in its walk.
C25_Witness ==
  /\ last = [op |-> "rejected", path |-> "", flag |-> FALSE, route |-> "watch"]
  /\ "/r" \in DOMAIN watchers
  /\ \E sc \in scanCalls : sc.root = "/n"

\* The Folders of path p are one, a root, marked watched.
OneWatchedRoot(F, p) ==
  /\ Cardinality({i \in DOMAIN F : F[i].path = p}) = 1
  /\ F[GetFolderByPath(F, p)].parentId = NoId
  /\ F[GetFolderByPath(F, p)].isWatched

\* C26: when a scan or watch request for /n, which does not exist, completes,
\* there is exactly one Folder for /n, with no parent and isWatched = true,
\* and the walk has found no asset.
C26_MissingRootTracked ==
  [][/\ \A sc \in scanCalls :
          (sc.root = "/n" /\ ScanReturns(sc)) =>
             OneWatchedRoot(folders', "/n") /\ last'.count = 0
     /\ \A w \in watchCalls :
          (w.root = "/n" /\ watchCalls' = watchCalls \ {w}) =>
             OneWatchedRoot(folders', "/n") /\ assets' = assets]_vars

\* C27: when the fs.stat of a processAsset rejects, the call ends there: no
\* Asset changes and no thumbnail is requested; a handler's call is over and
\* its subscription keeps its queued events, a walk goes on with the entries
\* that follow or completes.
C27_StatFailureSkips ==
  [][/\ \A cb \in callbacks :
          (cb.pc = "stat" /\ StatOf(cb.path).mtime = 0 /\ CallbackStat(cb)) =>
             /\ UNCHANGED <<assets, folders, currentAssetId, currentFolderId, subs, watchers>>
             /\ callbacks' = callbacks \ {cb}
     /\ \A w \in watchCalls :
          (w.pc = "stat" /\ StatOf(w.path).mtime = 0 /\ WalkStat(w)) =>
             /\ UNCHANGED <<assets, currentAssetId, callbacks>>
             /\ \A v \in watchCalls' : v.cid = w.cid => v.pc # "thumb"
             /\ (\A v \in watchCalls' : v.cid # w.cid) => w.root \in DOMAIN watchers']_vars

\* a.obj was created and deleted under the watcher before the add handler's
\* stat; the stat failed, and the unlink event that followed was delivered.
C27_Witness ==
  /\ last = [op |-> "unlink", path |-> "/r/s/a.obj", flag |-> FALSE]
  /\ callbacks = {}
  /\ QueuesEmpty
  /\ assets = DemoAssets
  /\ \E i \in DOMAIN subs : subs[i].open

\* What a processAsset x, back from generateThumbnail with null, has written:
\* the new Asset, or the update of the Asset it looked up if it is still
\* there, with thumbnailPath null and the size and mtime of its stat.
WrittenWithoutThumbnail(x) ==
  LET id == IF x.assetId # NoId THEN x.assetId ELSE currentAssetId
  IN  (x.assetId # NoId => x.assetId \in DOMAIN assets) =>
         /\ id \in DOMAIN assets'
         /\ assets'[id].filepath = x.path
         /\ assets'[id].thumbnailPath = NullPath
         /\ assets'[id].filesize = x.size
         /\ assets'[id].lastModified = x.mtime

\* C28: generateThumbnail ends with a path or with null, never with an
\* exception; when it ends with null the processAsset that called it still
\* creates the Asset, or applies the update, with thumbnailPath null.
C28_NullThumbnailStillWrites ==
  [][/\ \A cb \in callbacks :
          CallbackThumb(cb, NullPath) =>
             WrittenWithoutThumbnail(cb) /\ callbacks' = callbacks \ {cb}
     /\ \A w \in watchCalls :
          WalkThumb(w, NullPath) => WrittenWithoutThumbnail(w)]_vars

\* a.obj, created and then written under the watcher, is indexed with the
\* later mtime and no thumbnail.
C28_Witness ==
  /\ FileAssets("/r/s/a.obj") = {4}
  /\ assets[4].thumbnailPath = NullPath
  /\ assets[4].lastModified = 2
  /\ callbacks = {}
  /\ QueuesEmpty

\* The tags generateTagsFromPath gives for the file p.
InferredTags(p) ==
  GenerateTagsFromPath(Chars[p], BasenameWithout(BasenameChars(Chars[p]), PathExtLower(p)))

\* C29: every Asset created for a file of the tree, by the scan or by the
\* watcher, has the inferred tags of its path and a metadata with the
\* containing directory, the extension and the estimated flag.
C29_SameTagsAndMetadata ==
  \A i \in DOMAIN assets :
     assets[i].filepath \in DOMAIN Chars =>
        /\ assets[i].tags = InferredTags(assets[i].filepath)
        /\ {"directory", "extension", "estimated"} \subseteq DOMAIN assets[i].metadata

\* C30: the scanner and the watcher accept the same extensions, so whatever
\* either of them has indexed is a file that both accept.
C30_SameSupportedSet ==
  \A i \in DOMAIN assets :
     assets[i].filepath \in DOMAIN Chars =>
        (ScannerSupports(assets[i].filepath) <=> Is3DFile(assets[i].filepath))

\* A directory name the walks are to leave alone: hidden, or of the deny-list.
IgnoredSegment(seg) ==
  /\ seg # << >>
  /\ \/ Head(seg) = "."
     \/ \E g \in 1..Len(IgnoredDirs) : Chars[IgnoredDirs[g]] = ToLowerCase(seg)

\* The directories on the way to p, p itself left out.
DirectoriesAbove(p) ==
  LET segs == Split(Chars[p], Sep) IN {segs[k] : k \in 1..(Len(segs) - 1)}

\* C31: no Folder is recorded for a hidden or deny-listed directory or for
\* a directory beneath one, and no Asset is indexed for a file beneath one,
\* whether the walk was the scan's or the watcher's.
C31_IgnoredDirectoriesSkipped ==
  /\ \A i \in DOMAIN folders :
        folders[i].path \in DOMAIN Chars =>
           /\ ~IgnoredSegment(BasenameChars(Chars[folders[i].path]))
           /\ \A seg \in DirectoriesAbove(folders[i].path) : ~IgnoredSegment(seg)
  /\ \A i \in DOMAIN assets :
        assets[i].filepath \in DOMAIN Chars =>
           \A seg \in DirectoriesAbove(assets[i].filepath) : ~IgnoredSegment(seg)

ScenarioAsset == "/p/Characters/hero_lowpoly_v2.fbx"

\* The file name of p without its extension, lower-cased.
LowerName(p) ==
  LET b == BasenameChars(Chars[p])
      e == ExtnameChars(b)
  IN  ToLowerCase(SubSeq(b, 1, Len(b) - Len(e)))

\* The tags the claim gives for the path p, as a set.
ExpectedTags(p) ==
  LET lower == ToLowerCase(Chars[p])
      segs == Split(lower, Sep)
  IN  {ExtensionTags[i].tag : i \in {j \in 1..Len(ExtensionTags) :
                                        EndsWith(lower, Chars[ExtensionTags[j].ext])}}
      \cup {DirectoryTags[i].tag : i \in {j \in 1..Len(DirectoryTags) :
                \E k \in 1..Len(segs) : Includes(segs[k], Chars[DirectoryTags[j].kw])}}
      \cup {FilenameTags[i].tag : i \in {j \in 1..Len(FilenameTags) :
                Includes(LowerName(p), Chars[FilenameTags[j].kw])}}

\* C32: the tags of every Asset the scan creates are a function of its path
\* alone: the format tag of the extension, the tag of each keyword found in
\* a lower-cased path segment and the tag of each keyword found in the
\* lower-cased file name, each once; the Asset of
\* Characters/hero_lowpoly_v2.fbx has filetype .fbx and the tags fbx,
\* character, lowpoly and versioned among them.
C32_TagInference ==
  \A i \in DOMAIN assets :
     LET a == assets[i]
         tagSet == {a.tags[k] : k \in 1..Len(a.tags)}
     IN  a.filepath \in DOMAIN Chars =>
            /\ tagSet = ExpectedTags(a.filepath)
            /\ Cardinality(tagSet) = Len(a.tags)
            /\ a.filepath = ScenarioAsset =>
                  /\ a.filetype = ".fbx"
                  /\ {"fbx", "character", "lowpoly", "versioned"} \subseteq tagSet

\* Both files of /p/Characters are indexed; rig.ma meets the keyword rig in
\* a path segment and in its file name.
C32_Witness ==
  /\ \E i \in DOMAIN assets : assets[i].filepath = ScenarioAsset
  /\ \E i \in DOMAIN assets :
        /\ assets[i].filepath = "/p/Characters/rig.ma"
        /\ \E k \in 1..Len(assets[i].tags) : assets[i].tags[k] = "rigged"

\* The subscription the watcher map holds for root is open.
LiveWatch(root) == root \in DOMAIN watchers /\ subs[watchers[root]].open

\* C33: removeWatchFolder("/r/s"), from its call to its return, leaves "/r"
\* in the watcher map with the same open subscription; from then on every
\* change of a file under /r/s is queued on the subscription of "/r", and
\* the handlers of that subscription apply it: an unlink leaves no Asset
\* with the path, an add or change of a 3D file starts processAsset.
C33_NestedIndependent ==
  /\ [](ops >= 3 => LiveWatch("/r"))
  /\ [][/\ (LiveWatch("/r") /\ RemoveWatchFolder("/r/s")) =>
             /\ LiveWatch("/r")'
             /\ watchers'["/r"] = watchers["/r"]
             /\ subs'[watchers["/r"]] = subs[watchers["/r"]]
        /\ \A rc \in removeCalls :
             (LiveWatch("/r") /\ rc.root = "/r/s" /\ RemoveFinish(rc)) =>
                /\ LiveWatch("/r")'
                /\ watchers'["/r"] = watchers["/r"]
                /\ subs'[watchers["/r"]] = subs[watchers["/r"]]
        /\ \A p \in Files :
             (LiveWatch("/r") /\ fsFiles'[p] # fsFiles[p]) =>
                LET q == subs'[watchers["/r"]].queue
                IN  /\ Len(q) = Len(subs[watchers["/r"]].queue) + 1
                    /\ q[Len(q)].path = p
        /\ (LiveWatch("/r") /\ OnUnlink(watchers["/r"])) =>
             \A i \in DOMAIN assets' :
                assets'[i].filepath # Head(subs[watchers["/r"]].queue).path
        /\ (LiveWatch("/r") /\ OnAddOrChange(watchers["/r"])) =>
             \E cb \in callbacks' \ callbacks :
                /\ cb.sub = watchers["/r"]
                /\ cb.path = Head(subs[watchers["/r"]].queue).path]_vars

\* "/r/s" is unwatched, "/r" is watched, and the file of /r/s, created and
\* written after the removal, has its Asset with the second modification
\* time.
C33_Witness ==
  /\ "/r/s" \notin DOMAIN watchers
  /\ \E i \in DOMAIN subs : subs[i].root = "/r/s" /\ ~subs[i].open
  /\ LiveWatch("/r")
  /\ \E i \in DOMAIN assets :
        assets[i].filepath = ScenarioFile /\ assets[i].lastModified = 2

\* The Asset records of the files agree with the filesystem.
AgreesWithFiles ==
  \A p \in Files :
     IF fsFiles[p].mtime > 0
     THEN /\ FileAssets(p) # {}
          /\ \A a \in FileAssets(p) : assets[a].lastModified = fsFiles[p].mtime
     ELSE FileAssets(p) = {}

\* C34: with the root watched, whenever every event has been handed to its
\* handler and no callback is left in flight, each file that exists has an
\* Asset with the file's modification time and a deleted file has none.
C34_QuiescentAgreement ==
  (Watching(ScenarioRoot) /\ LiveWatch(ScenarioRoot) /\ QueuesEmpty /\ callbacks = {})
     => AgreesWithFiles

\* C35: every open subscription is the one the watcher map holds for its
\* path, so a path has at most one open subscription and each can be closed
\* through the map, also when calls of addWatchFolder for one path overlap.
C35_OneSubscriptionPerPath ==
  \A i \in DOMAIN subs :
     subs[i].open => subs[i].root \in DOMAIN watchers /\ watchers[subs[i].root] = i

\* C36: when the last request was a removeWatchFolder(root) that found no
\* watcher, so that any later subscription of root comes from a call of
\* addWatchFolder(root) that was walking then, and every call has finished,
\* root is not in the watcher map and has no open subscription.
C36_RemoveDuringWalkUnwatches ==
  \A root \in WatchRoots :
     (/\ last = [op |-> "removeWatchFolder", path |-> root, flag |-> FALSE]
      /\ \A w \in watchCalls : w.root # root
      /\ removeCalls = {})
       => /\ root \notin DOMAIN watchers
          /\ \A i \in DOMAIN subs : subs[i].root = root => ~subs[i].open

\* C37: when no watch, unwatch or scan request is in progress, the paths of
\* the watcher map are the paths of the Folders with isWatched = true.
C37_WatchedListMatchesFolders ==
  NothingInFlight =>
     DOMAIN watchers = {folders[i].path : i \in {j \in DOMAIN folders : folders[j].isWatched}}

\* C38: an Asset is stored under its own id and every id of an Asset or a
\* Folder is below its counter; a step never lowers a counter, every record
\* it adds has an id the counter had not yet passed, so an id once assigned
\* is never assigned again, whatever was deleted or cleared before; and an
\* Asset that stays keeps its id, its filepath and its createdAt.
C38_IdsNeverReused ==
  /\ [](/\ \A i \in DOMAIN assets : i < currentAssetId /\ assets[i].id = i
        /\ \A i \in DOMAIN folders : i < currentFolderId)
  /\ [][/\ currentAssetId' >= currentAssetId
        /\ currentFolderId' >= currentFolderId
        /\ DOMAIN assets' \ DOMAIN assets \subseteq currentAssetId..(currentAssetId' - 1)
        /\ DOMAIN folders' \ DOMAIN folders \subseteq currentFolderId..(currentFolderId' - 1)
        /\ \A i \in DOMAIN assets \cap DOMAIN assets' :
             /\ assets'[i].id = assets[i].id
             /\ assets'[i].filepath = assets[i].filepath
             /\ assets'[i].createdAt = assets[i].createdAt]_vars

\* Two scans have cleared and rebuilt the Assets, and the client's update
\* with id, filepath and createdAt in its body was applied to the Asset of
\* the second scan.
C38_Witness ==
  /\ last.op = "updateAsset" /\ last.flag /\ last.id = 5
  /\ DOMAIN assets = {5}
  /\ assets[5].tags = <<"e1">>
  /\ assets[5].createdAt = 2

\* C39: the model cache never holds more than MAX_CACHED_MODELS entries and
\* no key twice; a key has at most one load in flight, the one whose promise
\* loadingPromises holds; and a preloadModel call for a key that is cached
\* or loading starts no load.
C39_CacheBounded ==
  /\ [](/\ Len(globalModelCache) <= MAX_CACHED_MODELS
        /\ Cardinality(CacheKeys(globalModelCache)) = Len(globalModelCache)
        /\ \A l1, l2 \in loads : l1.key = l2.key => l1 = l2
        /\ \A l \in loads : l.key \in DOMAIN loadingPromises /\ loadingPromises[l.key] = l.call)
  /\ [][\A key \in 1..MaxKeys :
          ((key \in CacheKeys(globalModelCache) \/ key \in DOMAIN loadingPromises)
             /\ PreloadModel(key)) => loads' = loads]_vars

\* The cache is full after an entry was removed for the last key, whose load
\* finished before that of the key requested before it, which has a second
\* call waiting.
C39_Witness ==
  /\ Len(globalModelCache) = MAX_CACHED_MODELS
  /\ MaxKeys \in CacheKeys(globalModelCache)
  /\ 2 \notin CacheKeys(globalModelCache)
  /\ \E l \in loads : l.key = MaxKeys - 2
  /\ \E c \in waiting : c.key = MaxKeys - 2

====
